---- MODULE Spec2Model ----
(***************************************************************************)
(* Paper-trading ledger of StockTradingAdvisor: executeTrade of            *)
(* server/src/controllers/portfolioController.ts against the MySQL tables  *)
(* portfolios, holdings and transactions of the schema, with the price     *)
(* lookup of server/src/services/yahooFinanceService.ts.                   *)
(*                                                                         *)
(* Money is counted in integer units of half a cent, so that a quote with  *)
(* a sub-cent part (1.005) is a value of the model; a DECIMAL(15,2) column *)
(* holds multiples of Cent only and rounds what is written to it.  Share   *)
(* quantities are whole shares, which DECIMAL(15,4) stores unchanged.  The *)
(* products and quotients executeTrade computes in JavaScript numbers are  *)
(* taken as their exact values.                                            *)
(*                                                                         *)
(* Every await of executeTrade is one action.  A database transaction is   *)
(* the list of its pending writes: other connections read committed rows   *)
(* only, the first UPDATE of a portfolio row takes its row lock, commit    *)
(* applies the writes and rollback drops them.                             *)
(*                                                                         *)
(* The quote services are AlphaVantageService, with its cache and its      *)
(* request queue, and FinnhubService, with its cache.  Time is Date.now()  *)
(* in milliseconds; it passes in steps of Delays.  A call runs up to its   *)
(* first await in one action, and what follows the return of axios.get,    *)
(* up to the next await of the call and of processQueue, in another.       *)
(*                                                                         *)
(* getPortfolioPerformance replays the log of an account against the       *)
(* series of getBulkHistoricalData.  A date is the number of a day and an  *)
(* instant the number of a half day; every await of the call is an action, *)
(* and the return of the last series computes and sends the points.        *)
(*                                                                         *)
(* The browser of a guest is PortfolioProvider of the client with its      *)
(* three state values and its three localStorage keys.  A function a       *)
(* handler took from usePortfolio() reads the state of the render it was   *)
(* made in; every await of handleCreatePortfolio and of migrateToAccount   *)
(* is one action.                                                          *)
(***************************************************************************)
EXTENDS Integers, Sequences, FiniteSets, TLC

\* ---------------------------------------------------------------- bounds
MaxTrades == 2        \* executeTrade calls started in one behaviour
MaxCalls == 2         \* createPortfolio and migrateGuestPortfolio calls started
MaxQuoteCalls == 2    \* getQuote and getHistoricalData calls started
MaxTicks == 2         \* steps of the clock
MaxEnqueued == 3      \* getQuote calls started where the queue is studied
MaxLiveCalls == 3     \* getQuote calls started where its progress is studied
MaxPerfCalls == 2     \* getPortfolioPerformance calls made
MaxOwnerCalls == 2    \* calls started where two users have accounts
MaxRuns == 2          \* clicks on the button of handleCreatePortfolio
MaxMigrations == 1    \* migrateToAccount calls made
InitialCents == 300   \* balance of the account at creation, in cents

\* ------------------------------------------------------------- constants
\* the smallest amount a DECIMAL(15, 2) column tells apart, in model units
Cent == 2

\* the requests that are served at the same time
Requests == {1, 2}
\* req.userId of an authenticated request (they all come from one user) and
\* of a request without authentication
UserId == 1
NoUser == 0
UserIdInputs == {NoUser, UserId}
SymbolInputs == {"", "aapl"}
QuantityInputs == {-1, 0, 1, 2}
TypeInputs == {"buy", "sell", "hold"}
Prices == {200, 301}        \* 1.00 and 1.505, in model units

\* responses of executeTrade (res.status(...).json({error: ...}))
InvalidOrder == "Invalid trade parameters"
InsufficientFunds == "Insufficient balance"
InsufficientShares == "Insufficient shares to sell"
TradeFailed == "Failed to execute trade"
QuoteUnavailable == TradeFailed
PortfolioNotFound == "Portfolio not found"
AuthenticationRequired == "Authentication required"
PerformanceFailed == "Failed to get portfolio performance"
Success == "success"

VARIABLES
  db,        \* committed rows of the tables, and the AUTO_INCREMENT of holdings
  reqs,      \* per request slot: position in executeTrade and its locals
  nStarted,  \* number of executeTrade calls started
  last,      \* the response sent by the latest step, with its request
  prev,      \* history: the latest committed trade and the rows before it
  migs,      \* the createPortfolio and migrateGuestPortfolio calls
  svc,       \* the quote services: caches, request queue, calls, clock
  perf,      \* the getPortfolioPerformance call: position, locals, answer
  guest      \* the browser of a guest: React state, localStorage, handlers

vars == <<db, reqs, nStarted, last, prev, migs, svc, perf, guest>>

\* ------------------------------------------------------- pure functions
\* String.prototype.toUpperCase on the symbols of the model
ToUpperCase(s) ==
  CASE s = "aapl" -> "AAPL"
    [] OTHER -> s

\* JavaScript !x for a string and for a number of the request body
FalsyString(x) == x = ""
FalsyNumber(x) == x = 0

\* n / d rounded to the nearest integer, halves away from zero (d > 0)
RoundHalfAway(n, d) ==
  IF n >= 0 THEN (2 * n + d) \div (2 * d)
            ELSE -((2 * (-n) + d) \div (2 * d))

\* the value n / d as a DECIMAL(15, 2) column stores it (d # 0)
Decimal2(n, d) ==
  IF d > 0 THEN Cent * RoundHalfAway(n, d * Cent)
           ELSE Cent * RoundHalfAway(-n, (-d) * Cent)

\* the rows, in id order, of one portfolio and one symbol
RECURSIVE SelectSeq2(_, _, _)
SelectSeq2(rows, pid, sym) ==
  IF rows = <<>> THEN <<>>
  ELSE IF Head(rows).portfolio_id = pid /\ Head(rows).symbol = sym
       THEN <<Head(rows)>> \o SelectSeq2(Tail(rows), pid, sym)
       ELSE SelectSeq2(Tail(rows), pid, sym)

\* SELECT * FROM holdings WHERE portfolio_id = ? AND symbol = ?
SelectHoldings(d, pid, sym) == SelectSeq2(d.holdings, pid, sym)

\* SELECT * FROM portfolios WHERE user_id = ? ORDER BY created_at DESC LIMIT 1
RECURSIVE LatestPortfolio(_, _)
LatestPortfolio(rows, uid) ==
  IF rows = <<>> THEN <<>>
  ELSE IF rows[Len(rows)].user_id = uid
       THEN <<rows[Len(rows)]>>
       ELSE LatestPortfolio(SubSeq(rows, 1, Len(rows) - 1), uid)

\* the query without its WHERE user_id = ?
SelectPortfolio_AnyOwner(d, uid) ==
  IF d.portfolios = <<>> THEN <<>>
  ELSE <<d.portfolios[Len(d.portfolios)]>>
SelectPortfolio(d, uid) == LatestPortfolio(d.portfolios, uid)

\* ------------------------------------------ the replay of the log
\* holdings.set(symbol, entry) and holdings.delete(symbol) on the Map of
\* getPortfolioPerformance, a function on the symbols it has
MapSet(map, symbol, entry) ==
  [k \in DOMAIN map \cup {symbol} |-> IF k = symbol THEN entry ELSE map[k]]
MapDelete(map, symbol) ==
  [k \in DOMAIN map \ {symbol} |-> map[k]]

\* the replay before the first transaction
ReplayStart(initialBalance) ==
  [cash |-> initialBalance,
   holdings |-> [k \in {} |-> [quantity |-> 0, num |-> 0, den |-> 1]]]

\* lines 403-434 of getPortfolioPerformance: one transaction of the replay.
\* avgPrice is the fraction num / den; parseFloat of a DECIMAL column is its
\* value
ReplayOne(st, txn) ==
  LET symbol == txn.symbol
      quantity == txn.quantity
      price == txn.price
      existing == symbol \in DOMAIN st.holdings
  IN IF txn.type = "buy"
     THEN [cash |-> st.cash - price * quantity,
           holdings |->
             IF existing
             THEN LET e == st.holdings[symbol]
                      newQuantity == e.quantity + quantity
                  IN MapSet(st.holdings, symbol,
                            [quantity |-> newQuantity,
                             num |-> e.num * e.quantity
                                       + price * quantity * e.den,
                             den |-> e.den * newQuantity])
             ELSE MapSet(st.holdings, symbol,
                         [quantity |-> quantity, num |-> price, den |-> 1])]
     ELSE [cash |-> st.cash + price * quantity,
           holdings |->
             IF existing
             THEN LET e == st.holdings[symbol]
                      newQuantity == e.quantity - quantity
                  IN IF newQuantity <= 0
                     THEN MapDelete(st.holdings, symbol)
                     ELSE MapSet(st.holdings, symbol,
                                 [e EXCEPT !.quantity = newQuantity])
             ELSE st.holdings]

\* lines 395-435: the transactions replayed in their order
RECURSIVE Replay(_, _)
Replay(st, transactions) ==
  IF transactions = <<>> THEN st
  ELSE Replay(ReplayOne(st, Head(transactions)), Tail(transactions))

\* ------------------------------------------------- pending writes of a tx
MapRows(rows, F(_)) == [i \in 1..Len(rows) |-> F(rows[i])]

RECURSIVE DeleteRow(_, _)
DeleteRow(rows, id) ==
  IF rows = <<>> THEN <<>>
  ELSE IF Head(rows).id = id THEN DeleteRow(Tail(rows), id)
       ELSE <<Head(rows)>> \o DeleteRow(Tail(rows), id)

\* one SQL write statement applied to the rows
ApplyWrite(d, w) ==
  CASE w.op = "updateBalance" ->
         LET Upd(p) == IF p.id = w.id
                       THEN [p EXCEPT !.current_balance =
                                        Decimal2(p.current_balance + w.delta, 1)]
                       ELSE p
         IN [d EXCEPT !.portfolios = MapRows(d.portfolios, Upd)]
    [] w.op = "updateHolding" ->
         LET Upd(h) == IF h.id = w.id
                       THEN [h EXCEPT !.quantity = w.quantity,
                                      !.purchase_price = Decimal2(w.num, w.den),
                                      !.current_price = Decimal2(w.price, 1)]
                       ELSE h
         IN [d EXCEPT !.holdings = MapRows(d.holdings, Upd)]
    [] w.op = "updateHoldingQuantity" ->
         LET Upd(h) == IF h.id = w.id
                       THEN [h EXCEPT !.quantity = w.quantity,
                                      !.current_price = Decimal2(w.price, 1)]
                       ELSE h
         IN [d EXCEPT !.holdings = MapRows(d.holdings, Upd)]
    [] w.op = "insertHolding" ->
         [d EXCEPT !.holdingSeq = d.holdingSeq + 1,
                   !.holdings = Append(d.holdings,
             [id |-> d.holdingSeq + 1, portfolio_id |-> w.portfolio_id,
              symbol |-> w.symbol, quantity |-> w.quantity,
              purchase_price |-> Decimal2(w.purchase_price, 1),
              current_price |-> Decimal2(w.current_price, 1)])]
    [] w.op = "insertPortfolio" ->
         [d EXCEPT !.portfolios = Append(d.portfolios,
             [id |-> w.id, user_id |-> w.user_id,
              initial_balance |-> Decimal2(w.initial_balance, 1),
              current_balance |-> Decimal2(w.current_balance, 1)])]
    [] w.op = "deleteHolding" ->
         [d EXCEPT !.holdings = DeleteRow(d.holdings, w.id)]
    [] w.op = "insertTransaction" ->
         [d EXCEPT !.transactions = Append(d.transactions,
             [portfolio_id |-> w.portfolio_id, type |-> w.type,
              symbol |-> w.symbol, quantity |-> w.quantity,
              price |-> Decimal2(w.price, 1)])]

RECURSIVE ApplyWrites(_, _)
ApplyWrites(d, ws) ==
  IF ws = <<>> THEN d ELSE ApplyWrites(ApplyWrite(d, Head(ws)), Tail(ws))

\* connection.commit(): the pending writes become the committed rows
CommitRows(d, ws) == ApplyWrites(d, ws)

\* a rollback that leaves the pending writes to the next commit on the
\* connection
RollbackRows_Applies(d, ws) == ApplyWrites(d, ws)

\* connection.rollback(): the pending writes are dropped
RollbackRows(d, ws) == d

\* the portfolio row lock: held by the transaction that has updated the row
HoldsLock(q, pid) ==
  /\ reqs[q].conn = "tx"
  /\ \E i \in 1..Len(reqs[q].writes) :
       reqs[q].writes[i].op = "updateBalance" /\ reqs[q].writes[i].id = pid

LockFree(r, pid) == \A q \in Requests \ {r} : ~HoldsLock(q, pid)

\* ------------------------------------------------------------ the state
NewRequest ==
  [pc |-> "idle", symbol |-> "", quantity |-> 0, type |-> "",
   price |-> 0, lookups |-> 0,
   portfolios |-> <<>>, holdings |-> <<>>, writes |-> <<>>,
   conn |-> "none", error |-> "none"]

\* what a response step leaves to see of the request it answers
NoResponse ==
  [outcome |-> "none", error |-> "none", symbol |-> "", quantity |-> 0,
   type |-> "", price |-> 0, lookups |-> 0, conn |-> "none", pending |-> 0]

\* the tables after INSERT INTO portfolios of a first portfolio
InsertPortfolio(userId, initialBalance, currentBalance) ==
  [portfolios |-> <<[id |-> 1, user_id |-> userId,
                     initial_balance |-> Decimal2(initialBalance, 1),
                     current_balance |-> Decimal2(currentBalance, 1)]>>,
   holdings |-> <<>>,
   transactions |-> <<>>,
   holdingSeq |-> 0]

\* createPortfolio: a portfolio with its balance and nothing else
createPortfolio(userId, initialBalance) ==
  InsertPortfolio(userId, initialBalance, initialBalance)

\* migrateGuestPortfolio: the portfolio of a guest, inserted with its
\* holdings and its log in one transaction
migrateGuestPortfolio(userId, body) ==
  LET created == InsertPortfolio(userId, body.portfolio.initialBalance,
                                 body.portfolio.currentBalance)
      Holding(h) == [op |-> "insertHolding", portfolio_id |-> 1,
                     symbol |-> h.symbol, quantity |-> h.quantity,
                     purchase_price |-> h.purchasePrice,
                     current_price |-> h.currentPrice]
      Logged(t) == [op |-> "insertTransaction", portfolio_id |-> 1,
                    type |-> t.type, symbol |-> t.symbol,
                    quantity |-> t.quantity, price |-> t.price]
  IN CommitRows(created, MapRows(body.holdings, Holding)
                           \o MapRows(body.transactions, Logged))

\* the guest portfolio that is migrated: 2 shares bought at 1.00
GuestPortfolio ==
  [portfolio |-> [initialBalance |-> InitialCents * Cent,
                  currentBalance |-> InitialCents * Cent - 2 * 200],
   holdings |-> <<[symbol |-> "AAPL", quantity |-> 2, purchasePrice |-> 200,
                   currentPrice |-> 200]>>,
   transactions |-> <<[type |-> "buy", symbol |-> "AAPL", quantity |-> 2,
                       price |-> 200]>>]

\* a createPortfolio or migrateGuestPortfolio call that has not started
NewCall ==
  [pc |-> "idle", op |-> "", body |-> <<>>, portfolioId |-> 0, i |-> 0,
   writes |-> <<>>, conn |-> "none", committed |-> FALSE]

\* no response of createPortfolio or migrateGuestPortfolio
NoAnswer == [status |-> 0, op |-> "", body |-> <<>>, portfolioId |-> 0,
             committed |-> FALSE, pending |-> 0]

\* the callers of createPortfolio and migrateGuestPortfolio, one user's
Callers == {1, 2}

\* no call under way; portfolioSeq is the AUTO_INCREMENT of portfolios
NoCalls ==
  [calls |-> [c \in Callers |-> NewCall], portfolioSeq |-> 0, started |-> 0,
   last |-> NoAnswer]

\* ------------------------------------------- the quote services: state
cacheExpiry == 15 * 60 * 1000
minRequestInterval == 12000

\* the callers of the quote services that are served at the same time
QuoteCallers == {1, 2, 3}
\* the symbols asked of AlphaVantageService.getQuote, of getHistoricalData
\* and of FinnhubService.getQuote
QuoteSymbols == {"AAPL", "MSFT"}
ChartSymbols == {"AAPL"}
FinnhubSymbols == {"AAPL"}
Periods == {"daily"}

\* private cache: QuoteCache = {}: a function on the keys it has
EmptyCache == [k \in {} |-> [data |-> 0, timestamp |-> 0]]

\* a call of a quote service that has not started; fetches counts the
\* axios.get calls it made
NewQuoteCall ==
  [pc |-> "idle", op |-> "", symbol |-> "", key |-> "", fetches |-> 0]

\* what a call gave its caller: nothing yet
NoQuoteAnswer ==
  [kind |-> "none", caller |-> 0, op |-> "", key |-> "", data |-> 0,
   fetches |-> 0, outcome |-> ""]

\* the services after construction.  alpha is the AlphaVantageService
\* instance, finnhub the FinnhubService instance; consumers are the
\* processQueue invocations that are inside their loop; starts are the times
\* at which queued requests were started and nFetch counts the responses
\* the providers sent
NoQuotes ==
  [now |-> 0, ticks |-> 0,
   alpha |-> [cache |-> EmptyCache, requestQueue |-> <<>>,
              isProcessing |-> FALSE],
   finnhub |-> [cache |-> EmptyCache],
   consumers |-> <<>>,
   calls |-> [c \in QuoteCallers |-> NewQuoteCall],
   started |-> 0, nFetch |-> 0, starts |-> <<>>,
   answer |-> NoQuoteAnswer]

\* ---------------------------------- getPortfolioPerformance: state
\* no response sent yet
NoPerfAnswer == [status |-> 0, error |-> "", body |-> <<>>]

\* the historicalDataMap before a series is in it
EmptyData == [k \in {} |-> <<>>]

\* no getPortfolioPerformance call was made. pc is the await the call is
\* at; the locals of the call and the response stay as the call left them
\* until the next call; pending are the symbols whose getHistoricalData has
\* not returned, failed the symbols whose getHistoricalData threw, fetched
\* the number of yf.historical calls of the call and served the number of
\* calls made
NoPerformance ==
  [pc |-> "idle", userId |-> 0, today |-> 0,
   portfolio |-> [id |-> 0, initial_balance |-> 0],
   transactions |-> <<>>, symbols |-> {}, pending |-> {},
   data |-> EmptyData, failed |-> {}, fetched |-> 0,
   answer |-> NoPerfAnswer, served |-> 0]

\* ------------------------------------------- the browser of a guest: state
\* useState<Portfolio | null>(null): no portfolio
Null == [name |-> "", initialBalance |-> 0, currentBalance |-> 0]

\* portfolio, holdings and transactions of PortfolioProvider before
\* loadGuestPortfolio found anything
NoLedger == [portfolio |-> Null, holdings |-> <<>>, transactions |-> <<>>]

\* localStorage without the three keys of the guest; a key that is set
\* holds <<value>>, the text JSON.stringify made of value
NoStorage ==
  [guestPortfolio |-> <<>>, guestHoldings |-> <<>>,
   guestTransactions |-> <<>>]

\* handleCreatePortfolio of Home is not running. seen is the portfolio,
\* holdings and transactions of the render the handler took executeTrade
\* from, stocks what is left of suggestions.stocks, bought the buys its
\* executeTrade calls made, runs the clicks so far
NoHandler ==
  [pc |-> "idle", seen |-> NoLedger, budget |-> 0, stocks |-> <<>>,
   quantity |-> 0, bought |-> <<>>, alert |-> "", runs |-> 0]

\* migrateToAccount is not running. data is the body of its call, response
\* what its api.migratePortfolio got, calls the calls so far
NoMigration ==
  [pc |-> "idle", data |-> NoLedger, response |-> "", calls |-> 0]

\* a visitor: nothing stored, not logged in, no handler running. state is
\* what the latest render of PortfolioProvider has in portfolio, holdings
\* and transactions, token the token of useAuth
NoGuest ==
  [state |-> NoLedger, storage |-> NoStorage, token |-> FALSE,
   home |-> NoHandler, migrate |-> NoMigration]

\* the account is one createPortfolio made or one migrateGuestPortfolio made
Init ==
  /\ db \in {createPortfolio(UserId, InitialCents * Cent),
              migrateGuestPortfolio(UserId, GuestPortfolio)}
  /\ reqs = [r \in Requests |-> NewRequest]
  /\ nStarted = 0
  /\ last = NoResponse
  /\ prev = [db |-> db, type |-> "", symbol |-> "", quantity |-> 0,
             price |-> 0]
  /\ migs = NoCalls
  /\ svc = NoQuotes
  /\ perf = NoPerformance
  /\ guest = NoGuest

\* the request of slot r goes on, no response is sent by this step
Set(r, rec) ==
  /\ reqs' = [reqs EXCEPT ![r] = rec]
  /\ last' = NoResponse

\* res.status(...).json(...) and return: the request q of slot r is over,
\* its locals go out of scope
Respond(r, q, out) ==
  /\ reqs' = [reqs EXCEPT ![r] = NewRequest]
  /\ last' = [outcome |-> out, error |-> q.error, symbol |-> q.symbol,
              quantity |-> q.quantity, type |-> q.type, price |-> q.price,
              lookups |-> q.lookups, conn |-> q.conn,
              pending |-> Len(q.writes)]

\* ---------------------------------------------------------- executeTrade
\* lines 158-170: the request arrives, its user and its body are checked
Start(r) ==
  /\ reqs[r].pc = "idle"
  /\ nStarted < MaxTrades
  /\ nStarted' = nStarted + 1
  /\ \E userId \in UserIdInputs, symbol \in SymbolInputs,
        quantity \in QuantityInputs, type \in TypeInputs :
       LET q == [NewRequest EXCEPT !.symbol = symbol, !.quantity = quantity,
                                   !.type = type]
       IN IF FalsyNumber(userId)
          THEN Respond(r, q, AuthenticationRequired)
          ELSE IF FalsyString(symbol) \/ FalsyNumber(quantity)
                    \/ FalsyString(type) \/ (type # "buy" /\ type # "sell")
               THEN Respond(r, q, InvalidOrder)
               ELSE Set(r, [q EXCEPT !.pc = "getQuote"])
  /\ UNCHANGED <<db, prev, migs, svc, perf, guest>>

\* a lookup that is tried a second time when it throws
QuoteFailed_Retry(r) ==
  IF reqs[r].lookups = 0
  THEN Set(r, [reqs[r] EXCEPT !.lookups = reqs[r].lookups + 1])
  ELSE Respond(r, [reqs[r] EXCEPT !.error = "quote",
                                   !.lookups = reqs[r].lookups + 1],
               QuoteUnavailable)

\* yahooFinanceService.getQuote throws: the outer catch answers 500
QuoteFailed(r) ==
  Respond(r, [reqs[r] EXCEPT !.error = "quote",
                              !.lookups = reqs[r].lookups + 1],
          QuoteUnavailable)

\* lines 172-174: await yahooFinanceService.getQuote(symbol.toUpperCase())
GetQuote(r) ==
  /\ reqs[r].pc = "getQuote"
  /\ \/ \E p \in Prices :
          Set(r, [reqs[r] EXCEPT !.pc = "selectPortfolio", !.price = p,
                                 !.lookups = reqs[r].lookups + 1])
     \/ QuoteFailed(r)
  /\ UNCHANGED <<db, nStarted, prev, migs, svc, perf, guest>>

\* lines 176-187: the portfolio row is read through the pool, outside any
\* transaction; its current_balance is the one the buy check uses later
ReadPortfolio(r) ==
  /\ reqs[r].pc = "selectPortfolio"
  /\ LET portfolios == SelectPortfolio(db, UserId)
     IN IF Len(portfolios) = 0
        THEN Respond(r, reqs[r], PortfolioNotFound)
        ELSE Set(r, [reqs[r] EXCEPT !.pc = "begin", !.portfolios = portfolios])
  /\ UNCHANGED <<db, nStarted, prev, migs, svc, perf, guest>>

\* lines 176-180 and 292-295: the pool.query of the portfolio row throws, the
\* outer catch answers 500
ReadFailed(r) ==
  /\ reqs[r].pc = "selectPortfolio"
  /\ Respond(r, [reqs[r] EXCEPT !.error = "statement"], TradeFailed)
  /\ UNCHANGED <<db, nStarted, prev, migs, svc, perf, guest>>

\* lines 188-189 and 292-295: pool.getConnection() throws, or
\* connection.beginTransaction() throws on the connection just taken, which
\* nothing releases; the outer catch answers 500
BeginFailed(r) ==
  /\ reqs[r].pc = "begin"
  /\ \E c \in {"none", "leaked"} :
       Respond(r, [reqs[r] EXCEPT !.error = "statement", !.conn = c],
               TradeFailed)
  /\ UNCHANGED <<db, nStarted, prev, migs, svc, perf, guest>>

\* lines 188-189: pool.getConnection() and connection.beginTransaction()
Begin(r) ==
  /\ reqs[r].pc = "begin"
  /\ Set(r, [reqs[r] EXCEPT !.pc = reqs[r].type, !.conn = "tx"])
  /\ UNCHANGED <<db, nStarted, prev, migs, svc, perf, guest>>

\* line 192
TotalCost(q) == q.price * q.quantity

\* line 173, 212, 238, 274
Symbol(q) == ToUpperCase(q.symbol)

\* line 196: portfolio.current_balance < totalCost, on the row read at 177
InsufficientBalance(q) == q.portfolios[1].current_balance < TotalCost(q)

\* a rejection that answers 400 on the open transaction
BuyReject_NoRollback(r) ==
  /\ reqs[r].pc = "buy"
  /\ InsufficientBalance(reqs[r])
  /\ db' = db
  /\ Respond(r, reqs[r], InsufficientFunds)
  /\ UNCHANGED <<nStarted, prev, migs, svc, perf, guest>>

\* lines 196-201: rollback, release, 400
BuyReject(r) ==
  /\ reqs[r].pc = "buy"
  /\ InsufficientBalance(reqs[r])
  /\ db' = RollbackRows(db, reqs[r].writes)
  /\ Respond(r, [reqs[r] EXCEPT !.conn = "released"], InsufficientFunds)
  /\ UNCHANGED <<nStarted, prev, migs, svc, perf, guest>>

\* lines 203-207: UPDATE portfolios SET current_balance = current_balance - ?
BuyDebit(r) ==
  /\ reqs[r].pc = "buy"
  /\ ~InsufficientBalance(reqs[r])
  /\ LockFree(r, reqs[r].portfolios[1].id)
  /\ Set(r, [reqs[r] EXCEPT
       !.pc = "buySelect",
       !.writes = Append(@, [op |-> "updateBalance",
                             id |-> reqs[r].portfolios[1].id,
                             delta |-> -TotalCost(reqs[r])])])
  /\ UNCHANGED <<db, nStarted, prev, migs, svc, perf, guest>>

\* lines 209-213: SELECT * FROM holdings inside the transaction
BuySelect(r) ==
  /\ reqs[r].pc = "buySelect"
  /\ Set(r, [reqs[r] EXCEPT
       !.pc = "buyHolding",
       !.holdings = SelectHoldings(db, reqs[r].portfolios[1].id, Symbol(reqs[r]))])
  /\ UNCHANGED <<db, nStarted, prev, migs, svc, perf, guest>>

\* a merge that takes the latest price for the average cost
MergedHolding_LatestPrice(q) ==
  [op |-> "updateHolding", id |-> q.holdings[1].id,
   quantity |-> q.holdings[1].quantity + q.quantity,
   num |-> q.price, den |-> 1, price |-> q.price]

\* lines 217-226: the merged holding, as the parameters of the UPDATE
MergedHolding(q) ==
  LET holding == q.holdings[1]
      existingQty == holding.quantity
      existingPrice == holding.purchase_price
      newQuantity == existingQty + q.quantity
  IN [op |-> "updateHolding", id |-> holding.id, quantity |-> newQuantity,
      num |-> (existingPrice * existingQty) + (q.price * q.quantity),
      den |-> newQuantity, price |-> q.price]

\* lines 215-226: the holding exists and is merged
BuyMerge(r) ==
  /\ reqs[r].pc = "buyHolding"
  /\ Len(reqs[r].holdings) > 0
  /\ MergedHolding(reqs[r]).den # 0
  /\ Set(r, [reqs[r] EXCEPT !.pc = "record",
                            !.writes = Append(@, MergedHolding(reqs[r]))])
  /\ UNCHANGED <<db, nStarted, prev, migs, svc, perf, guest>>

\* lines 227-233: no holding of the symbol, a row is inserted
BuyInsert(r) ==
  /\ reqs[r].pc = "buyHolding"
  /\ Len(reqs[r].holdings) = 0
  /\ Set(r, [reqs[r] EXCEPT
       !.pc = "record",
       !.writes = Append(@, [op |-> "insertHolding",
                             portfolio_id |-> reqs[r].portfolios[1].id,
                             symbol |-> Symbol(reqs[r]),
                             quantity |-> reqs[r].quantity,
                             purchase_price |-> reqs[r].price,
                             current_price |-> reqs[r].price])])
  /\ UNCHANGED <<db, nStarted, prev, migs, svc, perf, guest>>

\* lines 236-242: SELECT * FROM holdings, then holdings[0].quantity
SellSelect(r) ==
  /\ reqs[r].pc = "sell"
  /\ LET holdings == SelectHoldings(db, reqs[r].portfolios[1].id, Symbol(reqs[r]))
     IN /\ Len(holdings) > 0
        /\ Set(r, [reqs[r] EXCEPT !.pc = "sellCheck", !.holdings = holdings])
  /\ UNCHANGED <<db, nStarted, prev, migs, svc, perf, guest>>

\* lines 241-242 with an empty result: holding is undefined, holding.quantity
\* throws a TypeError, the catch of line 287 rolls back and the outer catch
\* answers 500
SellNoHolding(r) ==
  /\ reqs[r].pc = "sell"
  /\ Len(SelectHoldings(db, reqs[r].portfolios[1].id, Symbol(reqs[r]))) = 0
  /\ db' = RollbackRows(db, reqs[r].writes)
  /\ Respond(r, [reqs[r] EXCEPT !.conn = "released", !.error = "TypeError"],
             TradeFailed)
  /\ UNCHANGED <<nStarted, prev, migs, svc, perf, guest>>

\* line 244: holdings.length === 0 || existingQty < quantity
InsufficientQuantity(q) ==
  Len(q.holdings) = 0 \/ q.holdings[1].quantity < q.quantity

\* lines 244-249: rollback, release, 400
SellReject(r) ==
  /\ reqs[r].pc = "sellCheck"
  /\ InsufficientQuantity(reqs[r])
  /\ db' = RollbackRows(db, reqs[r].writes)
  /\ Respond(r, [reqs[r] EXCEPT !.conn = "released"], InsufficientShares)
  /\ UNCHANGED <<nStarted, prev, migs, svc, perf, guest>>

\* lines 251-255: UPDATE portfolios SET current_balance = current_balance + ?
SellCredit(r) ==
  /\ reqs[r].pc = "sellCheck"
  /\ ~InsufficientQuantity(reqs[r])
  /\ LockFree(r, reqs[r].portfolios[1].id)
  /\ Set(r, [reqs[r] EXCEPT
       !.pc = "sellHolding",
       !.writes = Append(@, [op |-> "updateBalance",
                             id |-> reqs[r].portfolios[1].id,
                             delta |-> TotalCost(reqs[r])])])
  /\ UNCHANGED <<db, nStarted, prev, migs, svc, perf, guest>>

\* a sell that updates the holding even at quantity zero
SoldHolding_NeverDeletes(q) ==
  [op |-> "updateHoldingQuantity", id |-> q.holdings[1].id,
   quantity |-> q.holdings[1].quantity - q.quantity, price |-> q.price]

\* lines 257-268: DELETE the holding at quantity zero, else UPDATE it
SoldHolding(q) ==
  LET holding == q.holdings[1]
      newQuantity == holding.quantity - q.quantity
  IN IF newQuantity = 0
     THEN [op |-> "deleteHolding", id |-> holding.id]
     ELSE [op |-> "updateHoldingQuantity", id |-> holding.id,
           quantity |-> newQuantity, price |-> q.price]

SellHolding(r) ==
  /\ reqs[r].pc = "sellHolding"
  /\ Set(r, [reqs[r] EXCEPT !.pc = "record",
                            !.writes = Append(@, SoldHolding(reqs[r]))])
  /\ UNCHANGED <<db, nStarted, prev, migs, svc, perf, guest>>

\* a log entry that takes the symbol as the request spells it
Record_RawSymbol(r) ==
  /\ reqs[r].pc = "record"
  /\ Set(r, [reqs[r] EXCEPT
       !.pc = "commit",
       !.writes = Append(@, [op |-> "insertTransaction",
                             portfolio_id |-> reqs[r].portfolios[1].id,
                             type |-> reqs[r].type,
                             symbol |-> reqs[r].symbol,
                             quantity |-> reqs[r].quantity,
                             price |-> reqs[r].price])])
  /\ UNCHANGED <<db, nStarted, prev, migs, svc, perf, guest>>

\* lines 271-275: INSERT INTO transactions
Record(r) ==
  /\ reqs[r].pc = "record"
  /\ Set(r, [reqs[r] EXCEPT
       !.pc = "commit",
       !.writes = Append(@, [op |-> "insertTransaction",
                             portfolio_id |-> reqs[r].portfolios[1].id,
                             type |-> reqs[r].type,
                             symbol |-> Symbol(reqs[r]),
                             quantity |-> reqs[r].quantity,
                             price |-> reqs[r].price])])
  /\ UNCHANGED <<db, nStarted, prev, migs, svc, perf, guest>>

\* lines 277-286: connection.commit(), release, 200
Commit(r) ==
  /\ reqs[r].pc = "commit"
  /\ db' = CommitRows(db, reqs[r].writes)
  /\ prev' = [db |-> db, type |-> reqs[r].type, symbol |-> Symbol(reqs[r]),
              quantity |-> reqs[r].quantity, price |-> reqs[r].price]
  /\ Respond(r, [reqs[r] EXCEPT !.conn = "released"], Success)
  /\ UNCHANGED <<nStarted, migs, svc, perf, guest>>

\* the positions at which a statement of the transaction is awaited
InTransaction == {"buy", "buySelect", "buyHolding", "sell", "sellCheck",
                  "sellHolding", "record", "commit"}

\* lines 287-295: a statement of the transaction throws (an SQL error, a
\* lost connection, a NaN or Infinity parameter); rollback, release, 500.
\* When the rollback of line 288 throws as well, on a connection that is
\* lost, line 289 is not reached: the server drops the transaction and
\* nothing releases the connection
StatementFailed(r) ==
  /\ reqs[r].pc \in InTransaction
  /\ db' = RollbackRows(db, reqs[r].writes)
  /\ \E c \in {"released", "leaked"} :
       Respond(r, [reqs[r] EXCEPT !.conn = c, !.error = "statement"],
               TradeFailed)
  /\ UNCHANGED <<nStarted, prev, migs, svc, perf, guest>>

Next ==
  \E r \in Requests :
    \/ Start(r)
    \/ GetQuote(r)
    \/ ReadPortfolio(r)
    \/ ReadFailed(r)
    \/ Begin(r)
    \/ BeginFailed(r)
    \/ BuyReject(r)
    \/ BuyDebit(r)
    \/ BuySelect(r)
    \/ BuyMerge(r)
    \/ BuyInsert(r)
    \/ SellSelect(r)
    \/ SellNoHolding(r)
    \/ SellReject(r)
    \/ SellCredit(r)
    \/ SellHolding(r)
    \/ Record(r)
    \/ Commit(r)
    \/ StatementFailed(r)

Spec == Init /\ [][Next]_vars

\* a request that passes the checks of lines 162-170 arrives
ValidStart(r) == Start(r) /\ reqs'[r].pc = "getQuote"

\* an await of the request of slot r after the lookup returns or throws
AfterQuote(r) ==
  \/ ReadPortfolio(r)
  \/ ReadFailed(r)
  \/ Begin(r)
  \/ BeginFailed(r)
  \/ BuyReject(r)
  \/ BuyDebit(r)
  \/ BuySelect(r)
  \/ BuyMerge(r)
  \/ BuyInsert(r)
  \/ SellSelect(r)
  \/ SellNoHolding(r)
  \/ SellReject(r)
  \/ SellCredit(r)
  \/ SellHolding(r)
  \/ Record(r)
  \/ Commit(r)
  \/ StatementFailed(r)

\* an await of the request of slot r returns or throws
TradeStep(r) == GetQuote(r) \/ AfterQuote(r)

NextTrades == \E r \in Requests : ValidStart(r) \/ TradeStep(r)

\* every await of a request returns or throws: the lookup, the queries of
\* the pool and of the connection, the wait for a row lock
FairTrades == \A r \in Requests : WF_vars(TradeStep(r))

SpecTrades == Init /\ [][NextTrades]_vars /\ FairTrades

\* result.regularMarketPrice of a quote without a market price
Undefined == 0 - 1

\* what yf.quote answers with: a quote without a market price, with the
\* market price 0, with the market price 1.00
MarketPrices == {Undefined, 0, 200}

\* yahooFinanceService.getQuote line 104: result.regularMarketPrice || 0
QuotePrice(regularMarketPrice) ==
  IF regularMarketPrice = Undefined \/ regularMarketPrice = 0
  THEN 0
  ELSE regularMarketPrice

\* lines 172-174 with yahooFinanceService.getQuote lines 92-118: yf.quote
\* answers with a quote, or it answers nothing or throws and getQuote
\* throws
GetMarketQuote(r) ==
  /\ reqs[r].pc = "getQuote"
  /\ \/ \E m \in MarketPrices :
          Set(r, [reqs[r] EXCEPT !.pc = "selectPortfolio",
                                 !.price = QuotePrice(m),
                                 !.lookups = reqs[r].lookups + 1])
     \/ QuoteFailed(r)
  /\ UNCHANGED <<db, nStarted, prev, migs, svc, perf, guest>>

NextMarket ==
  \E r \in Requests : ValidStart(r) \/ GetMarketQuote(r) \/ AfterQuote(r)

SpecMarket == Init /\ [][NextMarket]_vars

\* ------------------------------- createPortfolio, migrateGuestPortfolio
\* the balance createPortfolio gives when the body names none: 100000.00
DefaultBalance == 100000 * 100 * Cent

\* req.body.initialBalance of createPortfolio: missing, or 3.00
BalanceInputs == {0, InitialCents * Cent}

\* a guest portfolio with fractions of a cent: balance 1.495, 1 share at
\* 1.505, and a log whose kind the ENUM of transactions.type accepts
GuestPortfolioSubCent ==
  [portfolio |-> [initialBalance |-> InitialCents * Cent,
                  currentBalance |-> InitialCents * Cent - 301],
   holdings |-> <<[symbol |-> "AAPL", quantity |-> 1, purchasePrice |-> 301,
                   currentPrice |-> 301]>>,
   transactions |-> <<[type |-> "buy", symbol |-> "AAPL", quantity |-> 1,
                       price |-> 301]>>]

\* a guest portfolio that never traded
GuestPortfolioEmpty ==
  [portfolio |-> [initialBalance |-> InitialCents * Cent,
                  currentBalance |-> InitialCents * Cent],
   holdings |-> <<>>,
   transactions |-> <<>>]

\* req.body of migrateGuestPortfolio
GuestBodies == {GuestPortfolio, GuestPortfolioSubCent, GuestPortfolioEmpty}

EmptyTables ==
  [portfolios |-> <<>>, holdings |-> <<>>, transactions |-> <<>>,
   holdingSeq |-> 0]

\* the tables are empty and no call is under way
InitAccounts ==
  /\ db = EmptyTables
  /\ reqs = [r \in Requests |-> NewRequest]
  /\ nStarted = 0
  /\ last = NoResponse
  /\ prev = [db |-> EmptyTables, type |-> "", symbol |-> "", quantity |-> 0,
             price |-> 0]
  /\ migs = NoCalls
  /\ svc = NoQuotes
  /\ perf = NoPerformance
  /\ guest = NoGuest

\* the call of caller c goes on, no response is sent by this step
Goes(c, call) ==
  migs' = [migs EXCEPT !.calls[c] = call, !.last = NoAnswer]

\* the call of caller c, with one more portfolio id taken
GoesWithId(c, call) ==
  migs' = [migs EXCEPT !.calls[c] = call, !.last = NoAnswer,
                       !.portfolioSeq = migs.portfolioSeq + 1]

\* res.status(status).json(...): the call of caller c is over
Answer(c, call, status) ==
  migs' = [migs EXCEPT
             !.calls[c] = NewCall,
             !.last = [status |-> status, op |-> call.op, body |-> call.body,
                       portfolioId |-> call.portfolioId,
                       committed |-> call.committed,
                       pending |-> Len(call.writes)]]

\* createPortfolio, lines 43-52: the request arrives
CallCreate(c) ==
  /\ migs.calls[c].pc = "idle"
  /\ migs.started < MaxCalls
  /\ \E userId \in UserIdInputs, initialBalance \in BalanceInputs :
       LET balance == IF FalsyNumber(initialBalance) THEN DefaultBalance
                                                     ELSE initialBalance
           call == [NewCall EXCEPT !.op = "create",
                      !.body = [portfolio |-> [initialBalance |-> balance,
                                               currentBalance |-> balance]]]
       IN migs' = [IF FalsyNumber(userId)
                   THEN [migs EXCEPT !.last = [NoAnswer EXCEPT !.status = 401,
                                                               !.op = "create"]]
                   ELSE [migs EXCEPT !.calls[c] = [call EXCEPT !.pc = "createInsert"],
                                     !.last = NoAnswer]
                   EXCEPT !.started = migs.started + 1]
  /\ UNCHANGED <<db, reqs, nStarted, last, prev, svc, perf, guest>>

\* createPortfolio, lines 54-59: INSERT INTO portfolios through the pool
CreateInsert(c) ==
  /\ migs.calls[c].pc = "createInsert"
  /\ LET call == migs.calls[c]
         id == migs.portfolioSeq + 1
     IN /\ db' = ApplyWrite(db, [op |-> "insertPortfolio", id |-> id,
                                 user_id |-> UserId,
                                 initial_balance |-> call.body.portfolio.initialBalance,
                                 current_balance |-> call.body.portfolio.currentBalance])
        /\ GoesWithId(c, [call EXCEPT !.pc = "createSelect", !.portfolioId = id,
                                      !.committed = TRUE])
  /\ UNCHANGED <<reqs, nStarted, last, prev, svc, perf, guest>>

\* createPortfolio, lines 61-66: SELECT the row, 201
CreateSelect(c) ==
  /\ migs.calls[c].pc = "createSelect"
  /\ Answer(c, migs.calls[c], 201)
  /\ UNCHANGED <<db, reqs, nStarted, last, prev, svc, perf, guest>>

\* createPortfolio, lines 67-70: a pool.query throws, 500
CreateFailed(c) ==
  /\ migs.calls[c].pc \in {"createInsert", "createSelect"}
  /\ Answer(c, migs.calls[c], 500)
  /\ UNCHANGED <<db, reqs, nStarted, last, prev, svc, perf, guest>>

\* migrateGuestPortfolio, lines 73-80: the request arrives
CallMigrate(c) ==
  /\ migs.calls[c].pc = "idle"
  /\ migs.started < MaxCalls
  /\ \E userId \in UserIdInputs, body \in GuestBodies :
       LET call == [NewCall EXCEPT !.op = "migrate", !.body = body]
       IN migs' = [IF FalsyNumber(userId)
                   THEN [migs EXCEPT !.last = [NoAnswer EXCEPT !.status = 401,
                                                               !.op = "migrate"]]
                   ELSE [migs EXCEPT !.calls[c] = [call EXCEPT !.pc = "begin"],
                                     !.last = NoAnswer]
                   EXCEPT !.started = migs.started + 1]
  /\ UNCHANGED <<db, reqs, nStarted, last, prev, svc, perf, guest>>

\* lines 82-84: pool.getConnection() and connection.beginTransaction()
MigrateBegin(c) ==
  /\ migs.calls[c].pc = "begin"
  /\ Goes(c, [migs.calls[c] EXCEPT !.pc = "insertPortfolio", !.conn = "tx"])
  /\ UNCHANGED <<db, reqs, nStarted, last, prev, svc, perf, guest>>

\* lines 83-84 and 152-155: getConnection throws, or beginTransaction throws
\* on the connection just taken, which nothing releases; 500
MigrateBeginFailed(c) ==
  /\ migs.calls[c].pc = "begin"
  /\ \E conn \in {"none", "leaked"} :
       Answer(c, [migs.calls[c] EXCEPT !.conn = conn], 500)
  /\ UNCHANGED <<db, reqs, nStarted, last, prev, svc, perf, guest>>

\* the inserts still to make after the first i holdings or transactions
AfterInsert(call, pc, i) ==
  IF pc = "insertHolding" /\ i < Len(call.body.holdings)
    THEN [call EXCEPT !.pc = "insertHolding", !.i = i + 1]
  ELSE IF pc = "insertHolding" /\ Len(call.body.transactions) > 0
    THEN [call EXCEPT !.pc = "insertTransaction", !.i = 1]
  ELSE IF pc = "insertTransaction" /\ i < Len(call.body.transactions)
    THEN [call EXCEPT !.pc = "insertTransaction", !.i = i + 1]
  ELSE [call EXCEPT !.pc = "commit", !.i = 0]

\* lines 87-93: INSERT INTO portfolios, portfolioId = insertId
MigrateInsertPortfolio(c) ==
  /\ migs.calls[c].pc = "insertPortfolio"
  /\ LET call == migs.calls[c]
         id == migs.portfolioSeq + 1
         w == [op |-> "insertPortfolio", id |-> id, user_id |-> UserId,
               initial_balance |-> call.body.portfolio.initialBalance,
               current_balance |-> call.body.portfolio.currentBalance]
     IN GoesWithId(c, AfterInsert([call EXCEPT !.portfolioId = id,
                                               !.writes = Append(@, w)],
                                  "insertHolding", 0))
  /\ UNCHANGED <<db, reqs, nStarted, last, prev, svc, perf, guest>>

\* lines 95-111: INSERT INTO holdings for the next holding of the body
MigrateInsertHolding(c) ==
  /\ migs.calls[c].pc = "insertHolding"
  /\ LET call == migs.calls[c]
         holding == call.body.holdings[call.i]
         w == [op |-> "insertHolding", portfolio_id |-> call.portfolioId,
               symbol |-> holding.symbol, quantity |-> holding.quantity,
               purchase_price |-> holding.purchasePrice,
               current_price |-> holding.currentPrice]
     IN Goes(c, AfterInsert([call EXCEPT !.writes = Append(@, w)],
                            "insertHolding", call.i))
  /\ UNCHANGED <<db, reqs, nStarted, last, prev, svc, perf, guest>>

\* lines 113-129: INSERT INTO transactions for the next entry of the body
MigrateInsertTransaction(c) ==
  /\ migs.calls[c].pc = "insertTransaction"
  /\ LET call == migs.calls[c]
         transaction == call.body.transactions[call.i]
         w == [op |-> "insertTransaction", portfolio_id |-> call.portfolioId,
               type |-> transaction.type, symbol |-> transaction.symbol,
               quantity |-> transaction.quantity, price |-> transaction.price]
     IN Goes(c, AfterInsert([call EXCEPT !.writes = Append(@, w)],
                            "insertTransaction", call.i))
  /\ UNCHANGED <<db, reqs, nStarted, last, prev, svc, perf, guest>>

\* line 131: connection.commit()
MigrateCommit(c) ==
  /\ migs.calls[c].pc = "commit"
  /\ db' = CommitRows(db, migs.calls[c].writes)
  /\ Goes(c, [migs.calls[c] EXCEPT !.pc = "selectPortfolio", !.committed = TRUE])
  /\ UNCHANGED <<reqs, nStarted, last, prev, svc, perf, guest>>

\* lines 133-137: SELECT the portfolio through the pool
MigrateSelectPortfolio(c) ==
  /\ migs.calls[c].pc = "selectPortfolio"
  /\ Goes(c, [migs.calls[c] EXCEPT !.pc = "selectHoldings"])
  /\ UNCHANGED <<db, reqs, nStarted, last, prev, svc, perf, guest>>

\* lines 139-151: SELECT its holdings, 201, release
MigrateSelectHoldings(c) ==
  /\ migs.calls[c].pc = "selectHoldings"
  /\ Answer(c, [migs.calls[c] EXCEPT !.conn = "released"], 201)
  /\ UNCHANGED <<db, reqs, nStarted, last, prev, svc, perf, guest>>

\* the positions at which migrateGuestPortfolio awaits inside its try
InMigration == {"insertPortfolio", "insertHolding", "insertTransaction",
                "commit", "selectPortfolio", "selectHoldings"}

\* a rollback that leaves the inserts made so far in the tables
MigrateRollback_Keeps(d, call) ==
  IF call.committed THEN d ELSE CommitRows(d, call.writes)

\* what connection.rollback() of line 147 leaves: the writes of an open
\* transaction are dropped, after the commit there is nothing to drop
MigrateRollback(d, call) ==
  IF call.committed THEN d ELSE RollbackRows(d, call.writes)

\* lines 146-155: a statement throws; rollback, release, 500
MigrateFailed(c) ==
  /\ migs.calls[c].pc \in InMigration
  /\ db' = MigrateRollback(db, migs.calls[c])
  /\ Answer(c, [migs.calls[c] EXCEPT !.conn = "released"], 500)
  /\ UNCHANGED <<reqs, nStarted, last, prev, svc, perf, guest>>

NextAccounts ==
  \E c \in Callers :
    \/ CallCreate(c)
    \/ CreateInsert(c)
    \/ CreateSelect(c)
    \/ CreateFailed(c)
    \/ CallMigrate(c)
    \/ MigrateBegin(c)
    \/ MigrateBeginFailed(c)
    \/ MigrateInsertPortfolio(c)
    \/ MigrateInsertHolding(c)
    \/ MigrateInsertTransaction(c)
    \/ MigrateCommit(c)
    \/ MigrateSelectPortfolio(c)
    \/ MigrateSelectHoldings(c)
    \/ MigrateFailed(c)

SpecAccounts == InitAccounts /\ [][NextAccounts]_vars

\* ------------------------------------------------------ the quote services
\* the steps of the clock: the wait of processQueue, and what then brings
\* an entry stored before the wait to the end of its validity
Delays == {minRequestInterval, cacheExpiry - minRequestInterval}

\* what a provider answers to axios.get: a payload, the rate limit note,
\* an error message, the plan limit, a body without the data, no answer
Outcomes == {"ok", "Note", "Error Message", "Information", "empty",
             "transport"}
\* Finnhub answers a payload, a body without c, or no 2xx
FinnhubOutcomes == {"ok", "empty", "transport"}

\* the keys of the caches
QuoteKey(symbol) == symbol
HistoricalKey(symbol, period) == symbol \o "_" \o period \o "_historical"
FinnhubKey(symbol) == "quote_" \o symbol

\* an entry that counts as valid for a millisecond more
isCacheValid_Inclusive(cache, key, now) ==
  /\ key \in DOMAIN cache
  /\ now - cache[key].timestamp <= cacheExpiry

\* part_004 lines 65-71, part_005 lines 25-31
isCacheValid(cache, key, now) ==
  /\ key \in DOMAIN cache
  /\ now - cache[key].timestamp < cacheExpiry

\* this.cache[key] = { data, timestamp: Date.now() }
Store(cache, key, data, now) ==
  [k \in DOMAIN cache \cup {key} |->
     IF k = key THEN [data |-> data, timestamp |-> now] ELSE cache[k]]

\* a body without the data is taken for a payload
Throws_NoEmptyCheck(op, outcome) == outcome \notin {"ok", "empty"}

\* the throw statements between axios.get and the store: every answer but
\* a payload throws (part_004 lines 93-108 and 217-236, part_005 line 57)
Throws(op, outcome) == outcome # "ok"

\* the call is over and its caller has the payload or the failure
QuoteAnswer(c, call, outcome, data) ==
  [kind |-> IF Throws(call.op, outcome) THEN "failure" ELSE "value",
   caller |-> c, op |-> call.op, key |-> call.key,
   data |-> IF Throws(call.op, outcome) THEN 0 ELSE data,
   fetches |-> call.fetches, outcome |-> outcome]

\* the cache after the answer of the provider
CacheAfter(cache, call, outcome, data, now) ==
  IF Throws(call.op, outcome) THEN cache
  ELSE Store(cache, call.key, data, now)

\* the answer of a call served from the cache
CachedAnswer(c, op, key, cache) ==
  [kind |-> "value", caller |-> c, op |-> op, key |-> key, data |-> cache[key].data,
   fetches |-> 0, outcome |-> ""]

Remove(seq, k) ==
  [i \in 1..(Len(seq) - 1) |-> IF i < k THEN seq[i] ELSE seq[i + 1]]

\* a loop that takes the request pushed last: pop() for shift()
LoopTop_Lifo(s, k) ==
  IF s.alpha.requestQueue # <<>>
  THEN LET n == Len(s.alpha.requestQueue)
           c == s.alpha.requestQueue[n]
       IN [s EXCEPT !.alpha.requestQueue = SubSeq(@, 1, n - 1),
                    !.consumers[k] = [pc |-> "request", call |-> c, due |-> 0],
                    !.calls[c].pc = "fetching",
                    !.calls[c].fetches = @ + 1,
                    !.starts = Append(@, s.now)]
  ELSE [s EXCEPT !.consumers = Remove(@, k),
                 !.alpha.isProcessing = FALSE]

\* lines 33-48, from the test of the while: invocation k of processQueue
\* shifts the next request and starts it, or leaves the loop
LoopTop(s, k) ==
  IF s.alpha.requestQueue # <<>>
  THEN LET c == Head(s.alpha.requestQueue)
       IN [s EXCEPT !.alpha.requestQueue = Tail(@),
                    !.consumers[k] = [pc |-> "request", call |-> c, due |-> 0],
                    !.calls[c].pc = "fetching",
                    !.calls[c].fetches = @ + 1,
                    !.starts = Append(@, s.now)]
  ELSE [s EXCEPT !.consumers = Remove(@, k),
                 !.alpha.isProcessing = FALSE]

\* a processQueue that waits minRequestInterval before its first request
processQueue_WaitsFirst(s) ==
  IF s.alpha.isProcessing \/ s.alpha.requestQueue = <<>> THEN s
  ELSE [s EXCEPT !.alpha.isProcessing = TRUE,
                 !.consumers = Append(@, [pc |-> "timer", call |-> 0,
                                          due |-> s.now + minRequestInterval])]

\* a processQueue that does not look at isProcessing
processQueue_Reentrant(s) ==
  IF s.alpha.requestQueue = <<>> THEN s
  ELSE LoopTop([s EXCEPT !.alpha.isProcessing = TRUE,
                         !.consumers = Append(@, [pc |-> "enter", call |-> 0,
                                                  due |-> 0])],
               Len(s.consumers) + 1)

\* lines 28-40: processQueue up to its first await
processQueue(s) ==
  IF s.alpha.isProcessing \/ s.alpha.requestQueue = <<>> THEN s
  ELSE LoopTop([s EXCEPT !.alpha.isProcessing = TRUE,
                         !.consumers = Append(@, [pc |-> "enter", call |-> 0,
                                                  due |-> 0])],
               Len(s.consumers) + 1)

\* a request that throws ends the loop with isProcessing still set
AfterRequest_StopsOnFailure(s, k) ==
  IF s.answer.kind = "failure"
  THEN [s EXCEPT !.consumers = Remove(@, k)]
  ELSE IF s.alpha.requestQueue # <<>>
       THEN [s EXCEPT !.consumers[k] = [pc |-> "timer", call |-> 0,
                                        due |-> s.now + minRequestInterval]]
       ELSE [s EXCEPT !.consumers = Remove(@, k),
                      !.alpha.isProcessing = FALSE]

\* an if for the while: processQueue returns after one request
AfterRequest_OneShot(s, k) ==
  [s EXCEPT !.consumers = Remove(@, k), !.alpha.isProcessing = FALSE]

\* lines 41-45: after await request(), invocation k waits minRequestInterval
\* if a request is queued, and goes to the test of the while
AfterRequest(s, k) ==
  IF s.alpha.requestQueue # <<>>
  THEN [s EXCEPT !.consumers[k] = [pc |-> "timer", call |-> 0,
                                   due |-> s.now + minRequestInterval]]
  ELSE LoopTop(s, k)

\* a call takes the first slot that is free
FreeSlot(c) ==
  /\ svc.calls[c].pc = "idle"
  /\ \A b \in QuoteCallers : b < c => svc.calls[b].pc # "idle"

\* one more call has arrived, nothing is answered yet
Arrived == [svc EXCEPT !.started = @ + 1, !.answer = NoQuoteAnswer]

\* AlphaVantageService.getQuote, lines 73-80 and 51-63: a valid entry is
\* returned, otherwise the request is pushed and processQueue is called
GetQuoteArrives(c) ==
  /\ FreeSlot(c)
  /\ \E symbol \in QuoteSymbols :
       LET key == QuoteKey(symbol)
       IN svc' = IF isCacheValid(svc.alpha.cache, key, svc.now)
                 THEN [Arrived EXCEPT
                         !.answer = CachedAnswer(c, "getQuote", key,
                                                 svc.alpha.cache)]
                 ELSE processQueue(
                        [Arrived EXCEPT
                           !.calls[c] = [NewQuoteCall EXCEPT
                                           !.pc = "queued",
                                           !.op = "getQuote",
                                           !.symbol = symbol,
                                           !.key = key],
                           !.alpha.requestQueue = Append(@, c)])
  /\ UNCHANGED <<db, reqs, nStarted, last, prev, migs, perf, guest>>

\* a getQuote of the calls the cache is studied with
AlphaGetQuote(c) ==
  /\ svc.started < MaxQuoteCalls
  /\ GetQuoteArrives(c)

\* a getQuote of the calls the request queue is studied with
ThrottledGetQuote(c) ==
  /\ svc.started < MaxEnqueued
  /\ GetQuoteArrives(c)

\* a getQuote of the calls the progress of the queue is studied with
QueuedGetQuote(c) ==
  /\ svc.started < MaxLiveCalls
  /\ GetQuoteArrives(c)

\* the invocation of processQueue that awaits the request of call c
ConsumerOf(c) ==
  CHOOSE k \in 1..Len(svc.consumers) :
    svc.consumers[k].pc = "request" /\ svc.consumers[k].call = c

\* lines 84-129 and 53-59, then 41-48: axios.get returns or throws, the
\* quote is stored and returned or the error is thrown, the promise of
\* queueRequest settles and processQueue goes on
AlphaQuoteReturns(c) ==
  /\ svc.calls[c].pc = "fetching"
  /\ svc.calls[c].op = "getQuote"
  /\ \E outcome \in Outcomes :
       LET call == svc.calls[c]
           data == svc.nFetch + 1
       IN svc' = AfterRequest(
                   [svc EXCEPT
                      !.nFetch = data,
                      !.calls[c] = NewQuoteCall,
                      !.alpha.cache = CacheAfter(@, call, outcome, data,
                                                 svc.now),
                      !.answer = QuoteAnswer(c, call, outcome, data)],
                   ConsumerOf(c))
  /\ UNCHANGED <<db, reqs, nStarted, last, prev, migs, perf, guest>>

\* line 43: the timer of invocation k of processQueue fires
TimerFires(k) ==
  /\ k \in 1..Len(svc.consumers)
  /\ svc.consumers[k].pc = "timer"
  /\ svc.now >= svc.consumers[k].due
  /\ svc' = LoopTop([svc EXCEPT !.answer = NoQuoteAnswer], k)
  /\ UNCHANGED <<db, reqs, nStarted, last, prev, migs, perf, guest>>

\* AlphaVantageService.getHistoricalData, lines 184-208: a valid entry is
\* returned, otherwise axios.get is called
GetHistoricalData(c) ==
  /\ FreeSlot(c)
  /\ svc.started < MaxQuoteCalls
  /\ \E symbol \in ChartSymbols, period \in Periods :
       LET key == HistoricalKey(symbol, period)
       IN svc' = IF isCacheValid(svc.alpha.cache, key, svc.now)
                 THEN [Arrived EXCEPT
                         !.answer = CachedAnswer(c, "getHistoricalData",
                                                 key, svc.alpha.cache)]
                 ELSE [Arrived EXCEPT
                         !.calls[c] = [pc |-> "fetching",
                                       op |-> "getHistoricalData",
                                       symbol |-> symbol, key |-> key,
                                       fetches |-> 1]]
  /\ UNCHANGED <<db, reqs, nStarted, last, prev, migs, perf, guest>>

\* lines 210-258: axios.get returns or throws, the series is stored and
\* returned or the error is thrown
HistoricalReturns(c) ==
  /\ svc.calls[c].pc = "fetching"
  /\ svc.calls[c].op = "getHistoricalData"
  /\ \E outcome \in Outcomes :
       LET call == svc.calls[c]
           data == svc.nFetch + 1
       IN svc' = [svc EXCEPT
                    !.nFetch = data,
                    !.calls[c] = NewQuoteCall,
                    !.alpha.cache = CacheAfter(@, call, outcome, data,
                                               svc.now),
                    !.answer = QuoteAnswer(c, call, outcome, data)]
  /\ UNCHANGED <<db, reqs, nStarted, last, prev, migs, perf, guest>>

\* FinnhubService.getQuote, part_005 lines 33-49: a valid entry is
\* returned, otherwise axios.get is called
FinnhubGetQuote(c) ==
  /\ FreeSlot(c)
  /\ svc.started < MaxQuoteCalls
  /\ \E symbol \in FinnhubSymbols :
       LET key == FinnhubKey(symbol)
       IN svc' = IF isCacheValid(svc.finnhub.cache, key, svc.now)
                 THEN [Arrived EXCEPT
                         !.answer = CachedAnswer(c, "finnhub.getQuote",
                                                 key, svc.finnhub.cache)]
                 ELSE [Arrived EXCEPT
                         !.calls[c] = [pc |-> "fetching",
                                       op |-> "finnhub.getQuote",
                                       symbol |-> symbol, key |-> key,
                                       fetches |-> 1]]
  /\ UNCHANGED <<db, reqs, nStarted, last, prev, migs, perf, guest>>

\* part_005 lines 51-83: axios.get returns or throws
FinnhubReturns(c) ==
  /\ svc.calls[c].pc = "fetching"
  /\ svc.calls[c].op = "finnhub.getQuote"
  /\ \E outcome \in FinnhubOutcomes :
       LET call == svc.calls[c]
           data == svc.nFetch + 1
       IN svc' = [svc EXCEPT
                    !.nFetch = data,
                    !.calls[c] = NewQuoteCall,
                    !.finnhub.cache = CacheAfter(@, call, outcome, data,
                                                 svc.now),
                    !.answer = QuoteAnswer(c, call, outcome, data)]
  /\ UNCHANGED <<db, reqs, nStarted, last, prev, migs, perf, guest>>

\* a timer of processQueue that is not due yet
TimerPending ==
  \E k \in 1..Len(svc.consumers) :
    svc.consumers[k].pc = "timer" /\ svc.now < svc.consumers[k].due

\* Date.now() moves on: MaxTicks times, and whenever a timer waits for it
Tick ==
  /\ svc.ticks < MaxTicks \/ TimerPending
  /\ \E d \in Delays :
       svc' = [svc EXCEPT !.now = @ + d, !.ticks = @ + 1,
                          !.answer = NoQuoteAnswer]
  /\ UNCHANGED <<db, reqs, nStarted, last, prev, migs, perf, guest>>

NextQuotes ==
  \/ \E c \in QuoteCallers :
       \/ AlphaGetQuote(c)
       \/ AlphaQuoteReturns(c)
       \/ GetHistoricalData(c)
       \/ HistoricalReturns(c)
       \/ FinnhubGetQuote(c)
       \/ FinnhubReturns(c)
  \/ \E k \in 1..Cardinality(QuoteCallers) : TimerFires(k)
  \/ Tick

\* the services of a server that has just started
SpecQuotes == InitAccounts /\ [][NextQuotes]_vars

\* AlphaVantageService.getQuote alone: the request queue and its callers
NextThrottle ==
  \/ \E c \in QuoteCallers :
       \/ ThrottledGetQuote(c)
       \/ AlphaQuoteReturns(c)
  \/ \E k \in 1..Cardinality(QuoteCallers) : TimerFires(k)
  \/ Tick

SpecThrottle == InitAccounts /\ [][NextThrottle]_vars

\* the clock moves for a timer that waits
TimerTick == Tick /\ TimerPending

\* the request queue where time passes for the timers only, so that a
\* cache entry stays valid once it is stored
NextThrottleLive ==
  \/ \E c \in QuoteCallers :
       \/ QueuedGetQuote(c)
       \/ AlphaQuoteReturns(c)
  \/ \E k \in 1..Cardinality(QuoteCallers) : TimerFires(k)
  \/ TimerTick

\* every axios.get is answered, every timer that is due fires and time
\* passes while a timer waits
FairThrottle ==
  /\ \A c \in QuoteCallers : WF_vars(AlphaQuoteReturns(c))
  /\ \A k \in 1..Cardinality(QuoteCallers) : WF_vars(TimerFires(k))
  /\ WF_vars(TimerTick)

SpecThrottleLive ==
  InitAccounts /\ [][NextThrottleLive]_vars /\ FairThrottle

\* ------------------------------------------------ getPortfolioPerformance
\* A date is the number of a day and an instant the number of a half day:
\* day d starts at the instant 2 * d, its midnight in UTC.
\* new Date(date) of a date string
Midnight(date) == 2 * date

\* toISOString().split('T')[0] of an instant
DateOf(instant) == instant \div 2

\* an item of yf.historical without a close
NoClose == 0 - 1

\* the instants at which a call reads the clock
Nows == {8, 9}

\* what yf.historical does for one symbol: it throws, it answers an empty
\* result, or it answers the items of a chart
Chart12 ==
  <<[date |-> 2, close |-> 200], [date |-> 4, close |-> 220]>>
Chart23 ==
  <<[date |-> 5, close |-> NoClose], [date |-> 6, close |-> 240]>>
Chart4 ==
  <<[date |-> 8, close |-> 260]>>
HistoryOutcomes ==
  {[kind |-> "throws", items |-> <<>>],
   [kind |-> "result", items |-> <<>>],
   [kind |-> "result", items |-> Chart12],
   [kind |-> "result", items |-> Chart23],
   [kind |-> "result", items |-> Chart4]}

\* getHistoricalData: the items as points of date and close
HistoricalPoints(items) ==
  [i \in 1..Len(items) |->
     [date |-> DateOf(items[i].date),
      close |-> IF items[i].close = NoClose THEN 0 ELSE items[i].close]]

\* getBulkHistoricalData, for one symbol: a throw of getHistoricalData is
\* caught and the symbol gets an empty series
BulkSeries(outcome) ==
  IF outcome.kind = "throws" THEN <<>> ELSE HistoricalPoints(outcome.items)

\* ORDER BY timestamp ASC: the rows by insertion into the sorted rows
RECURSIVE InsertByTimestamp(_, _)
InsertByTimestamp(sorted, row) ==
  IF sorted = <<>> THEN <<row>>
  ELSE IF row.timestamp < Head(sorted).timestamp
       THEN <<row>> \o sorted
       ELSE <<Head(sorted)>> \o InsertByTimestamp(Tail(sorted), row)

RECURSIVE OrderByTimestamp(_)
OrderByTimestamp(rows) ==
  IF rows = <<>> THEN <<>>
  ELSE InsertByTimestamp(OrderByTimestamp(SubSeq(rows, 1, Len(rows) - 1)),
                         rows[Len(rows)])

\* SELECT * FROM transactions WHERE portfolio_id = ? ORDER BY timestamp ASC
RECURSIVE TransactionsOf(_, _)
TransactionsOf(rows, pid) ==
  IF rows = <<>> THEN <<>>
  ELSE IF Head(rows).portfolio_id = pid
       THEN <<Head(rows)>> \o TransactionsOf(Tail(rows), pid)
       ELSE TransactionsOf(Tail(rows), pid)

SelectTransactions(d, pid) ==
  OrderByTimestamp(TransactionsOf(d.transactions, pid))

\* new Set(transactions.map(t => t.symbol))
SymbolsOf(transactions) ==
  {transactions[i].symbol : i \in 1..Len(transactions)}

\* the response to an account without a transaction: one point, of the
\* day of the call and of the initial balance
EmptyLogAnswer_NoPoint(portfolio, today) == <<>>
EmptyLogAnswer(portfolio, today) ==
  <<[date |-> today, value |-> portfolio.initial_balance]>>

\* allDates: the dates of the points of every series
AllDates_OneSeries(data) ==
  IF DOMAIN data = {} THEN {}
  ELSE LET first == CHOOSE s \in DOMAIN data :
                      \A t \in DOMAIN data : Len(data[s]) >= Len(data[t])
       IN {data[first][i].date : i \in 1..Len(data[first])}
AllDates(data) ==
  UNION {{data[s][i].date : i \in 1..Len(data[s])} : s \in DOMAIN data}

\* Array.from(allDates).sort()
RECURSIVE SortDates(_)
SortDates(dates) ==
  IF dates = {} THEN <<>>
  ELSE LET first == CHOOSE d \in dates : \A e \in dates : d <= e
       IN <<first>> \o SortDates(dates \ {first})

\* the replay loop with its break: the transactions before the first one
\* made after the midnight of the date
RECURSIVE UpTo(_, _)
UpTo(transactions, dateObj) ==
  IF transactions = <<>> THEN <<>>
  ELSE IF Head(transactions).timestamp > dateObj THEN <<>>
       ELSE <<Head(transactions)>> \o UpTo(Tail(transactions), dateObj)

\* historicalData.find(p => p.date === date)
RECURSIVE Find(_, _)
Find(series, date) ==
  IF series = <<>> THEN <<>>
  ELSE IF Head(series).date = date THEN <<Head(series)>>
       ELSE Find(Tail(series), date)

\* filter(p => p.date <= date).sort(descending)[0]: the first of the
\* points of the latest date that is not after the date
RECURSIVE ClosestPrevious(_, _)
ClosestPrevious(series, date) ==
  IF series = <<>> THEN <<>>
  ELSE LET rest == ClosestPrevious(Tail(series), date)
           p == Head(series)
       IN IF p.date > date THEN rest
          ELSE IF rest # <<>> /\ rest[1].date > p.date THEN rest
               ELSE <<p>>

\* a holding valued at the close of the date only
HoldingValue_ExactOnly(symbol, holding, data, date) ==
  IF symbol \in DOMAIN data /\ Find(data[symbol], date) # <<>>
  THEN holding.quantity * Find(data[symbol], date)[1].close
  ELSE 0

\* what one holding adds to holdingsValue
HoldingValue(symbol, holding, data, date) ==
  IF symbol \in DOMAIN data
  THEN LET priceData == Find(data[symbol], date)
           previousData == ClosestPrevious(data[symbol], date)
       IN IF priceData # <<>> THEN holding.quantity * priceData[1].close
          ELSE IF previousData # <<>>
               THEN holding.quantity * previousData[1].close
               ELSE 0
  ELSE 0

RECURSIVE HoldingsValue(_, _, _)
HoldingsValue(holdings, data, date) ==
  IF DOMAIN holdings = {} THEN 0
  ELSE LET symbol == CHOOSE k \in DOMAIN holdings : TRUE
       IN HoldingValue(symbol, holdings[symbol], data, date)
            + HoldingsValue(MapDelete(holdings, symbol), data, date)

\* totalValue of one date: the cash and the holdings of the replay up to
\* the midnight of the date, the holdings at the close of the date
TotalValue(portfolio, transactions, data, date) ==
  LET replayed == Replay(ReplayStart(portfolio.initial_balance),
                         UpTo(transactions, Midnight(date)))
  IN replayed.cash + HoldingsValue(replayed.holdings, data, date)

\* sort((a, b) => a.date.localeCompare(b.date)) of the entries
RECURSIVE InsertByDate(_, _)
InsertByDate(sorted, point) ==
  IF sorted = <<>> THEN <<point>>
  ELSE IF point.date < Head(sorted).date
       THEN <<point>> \o sorted
       ELSE <<Head(sorted)>> \o InsertByDate(Tail(sorted), point)

RECURSIVE SortByDate(_)
SortByDate(points) ==
  IF points = <<>> THEN <<>>
  ELSE InsertByDate(SortByDate(SubSeq(points, 1, Len(points) - 1)),
                    points[Len(points)])

\* performanceData: one entry of dateValueMap for each of the sorted dates
PerformanceData(portfolio, transactions, data) ==
  LET sortedDates == SortDates(AllDates(data))
  IN SortByDate([i \in 1..Len(sortedDates) |->
                   [date |-> sortedDates[i],
                    value |-> TotalValue(portfolio, transactions, data,
                                         sortedDates[i])]])

\* the accounts the calls are made on: no account, a fresh one, one that
\* traded, and a migrated one whose log is not in the order of its times
TradedTables ==
  [portfolios |-> <<[user_id |-> UserId, id |-> 1, current_balance |-> 300,
                     initial_balance |-> 600]>>,
   holdings |-> <<[portfolio_id |-> 1, symbol |-> "AAPL", quantity |-> 1,
                   id |-> 1, purchase_price |-> 200,
                   current_price |-> 220],
                  [portfolio_id |-> 1, symbol |-> "MSFT", quantity |-> 1,
                   id |-> 2, purchase_price |-> 120,
                   current_price |-> 120]>>,
   transactions |-> <<[portfolio_id |-> 1, symbol |-> "AAPL",
                       quantity |-> 2, price |-> 200, type |-> "buy",
                       timestamp |-> 3],
                      [portfolio_id |-> 1, symbol |-> "MSFT",
                       quantity |-> 1, price |-> 120, type |-> "buy",
                       timestamp |-> 5],
                      [portfolio_id |-> 1, symbol |-> "AAPL",
                       quantity |-> 1, price |-> 220, type |-> "sell",
                       timestamp |-> 7]>>,
   holdingSeq |-> 2]

MigratedTables ==
  [portfolios |-> <<[user_id |-> UserId, id |-> 1, current_balance |-> 420,
                     initial_balance |-> 600]>>,
   holdings |-> <<[portfolio_id |-> 1, symbol |-> "AAPL", quantity |-> 1,
                   id |-> 1, purchase_price |-> 200,
                   current_price |-> 220]>>,
   transactions |-> <<[portfolio_id |-> 1, symbol |-> "AAPL",
                       quantity |-> 1, price |-> 220, type |-> "sell",
                       timestamp |-> 6],
                      [portfolio_id |-> 1, symbol |-> "AAPL",
                       quantity |-> 2, price |-> 200, type |-> "buy",
                       timestamp |-> 2]>>,
   holdingSeq |-> 1]

PerformanceTables ==
  {EmptyTables, createPortfolio(UserId, InitialCents * Cent),
   TradedTables, MigratedTables}

InitPerformance ==
  /\ db \in PerformanceTables
  /\ reqs = [r \in Requests |-> NewRequest]
  /\ nStarted = 0
  /\ last = NoResponse
  /\ prev = [db |-> db, type |-> "", symbol |-> "", quantity |-> 0,
             price |-> 0]
  /\ migs = NoCalls
  /\ svc = NoQuotes
  /\ perf = NoPerformance
  /\ guest = NoGuest

\* the call goes on: this step sends no response
PerfGoes(pc, locals) ==
  /\ perf' = [locals EXCEPT !.pc = pc]
  /\ UNCHANGED <<db, reqs, nStarted, last, prev, migs, svc, guest>>

\* the call ends with a response
PerfAnswers(status, error, body, locals) ==
  /\ perf' = [locals EXCEPT !.pc = "idle",
                            !.answer = [status |-> status, error |-> error,
                                        body |-> body]]
  /\ UNCHANGED <<db, reqs, nStarted, last, prev, migs, svc, guest>>

\* lines 331-342: a call arrives; without a user the answer is 401,
\* otherwise the portfolio is queried
PerfCall ==
  /\ perf.pc = "idle"
  /\ perf.served < MaxPerfCalls
  /\ \E userId \in UserIdInputs, now \in Nows :
       LET locals == [NoPerformance EXCEPT !.userId = userId,
                                           !.today = DateOf(now),
                                           !.served = perf.served + 1]
       IN IF userId = NoUser
          THEN PerfAnswers(401, AuthenticationRequired, <<>>, locals)
          ELSE PerfGoes("portfolio", locals)

\* lines 338-355: the portfolio query returns; without a row the answer is
\* 404, otherwise the transactions are queried
PerfSelectPortfolio ==
  /\ perf.pc = "portfolio"
  /\ LET portfolios == SelectPortfolio(db, perf.userId)
     IN IF portfolios = <<>>
        THEN PerfAnswers(404, PortfolioNotFound, <<>>, perf)
        ELSE PerfGoes("transactions",
                      [perf EXCEPT !.portfolio = portfolios[1]])

\* lines 352-379: the transactions query returns; without a transaction
\* the answer is the single point, otherwise getBulkHistoricalData starts
\* getHistoricalData for every symbol of the log
PerfSelectTransactions ==
  /\ perf.pc = "transactions"
  /\ LET transactions == SelectTransactions(db, perf.portfolio.id)
         symbols == SymbolsOf(transactions)
     IN IF Len(transactions) = 0
        THEN PerfAnswers(200, "", EmptyLogAnswer(perf.portfolio, perf.today),
                         perf)
        ELSE PerfGoes("history",
                      [perf EXCEPT !.transactions = transactions,
                                   !.symbols = symbols,
                                   !.pending = symbols,
                                   !.fetched = Cardinality(symbols)])

\* yahooFinanceService lines 220-251 and lines 381-467: yf.historical of
\* one symbol returns; the series of the symbol is in the map, and with
\* the last symbol the points are computed and sent
PerfHistoryReturns(symbol) ==
  /\ perf.pc = "history"
  /\ symbol \in perf.pending
  /\ \E outcome \in HistoryOutcomes :
       LET locals ==
             [perf EXCEPT !.pending = @ \ {symbol},
                          !.data = MapSet(@, symbol, BulkSeries(outcome)),
                          !.failed = IF outcome.kind = "throws"
                                     THEN @ \cup {symbol} ELSE @]
       IN IF locals.pending = {}
          THEN PerfAnswers(200, "",
                           PerformanceData(locals.portfolio,
                                           locals.transactions, locals.data),
                           locals)
          ELSE PerfGoes("history", locals)

\* lines 468-471: a query of the call is rejected, the answer is 500
PerfFailed ==
  /\ perf.pc \in {"portfolio", "transactions"}
  /\ PerfAnswers(500, PerformanceFailed, <<>>, perf)

NextPerformance ==
  \/ PerfCall
  \/ PerfSelectPortfolio
  \/ PerfSelectTransactions
  \/ \E symbol \in QuoteSymbols : PerfHistoryReturns(symbol)
  \/ PerfFailed

SpecPerformance == InitPerformance /\ [][NextPerformance]_vars

\* ------------------------------------------------------------ two owners
\* the user_id of another user, who makes no request
OtherUserId == 2

\* the tables with the account of the other user: a portfolio made after
\* the ones in the tables, 1 AAPL bought at 2.00 out of 5.00
WithOtherOwner(d) ==
  LET pid == Len(d.portfolios) + 1
  IN [portfolios |-> d.portfolios \o
                       <<[id |-> pid, user_id |-> OtherUserId,
                          initial_balance |-> 1000,
                          current_balance |-> 600]>>,
      holdings |-> d.holdings \o
                     <<[id |-> d.holdingSeq + 1, portfolio_id |-> pid,
                        symbol |-> "AAPL", quantity |-> 1,
                        purchase_price |-> 400, current_price |-> 400]>>,
      transactions |-> d.transactions \o
                         <<[portfolio_id |-> pid, type |-> "buy",
                            symbol |-> "AAPL", quantity |-> 1,
                            price |-> 400]>>,
      holdingSeq |-> d.holdingSeq + 1]

\* the user and the other user have an account each, no call is under way
InitOwners ==
  /\ db \in {WithOtherOwner(createPortfolio(UserId, InitialCents * Cent)),
              WithOtherOwner(migrateGuestPortfolio(UserId, GuestPortfolio))}
  /\ reqs = [r \in Requests |-> NewRequest]
  /\ nStarted = 0
  /\ last = NoResponse
  /\ prev = [db |-> db, type |-> "", symbol |-> "", quantity |-> 0,
             price |-> 0]
  /\ migs = [NoCalls EXCEPT !.portfolioSeq = Len(db.portfolios)]
  /\ svc = NoQuotes
  /\ perf = NoPerformance
  /\ guest = NoGuest

\* the calls the user has started
OwnerCalls == nStarted + migs.started

\* the user starts a trade, a createPortfolio, a migrateGuestPortfolio
OwnerStart(r) == OwnerCalls < MaxOwnerCalls /\ Start(r)
OwnerCallCreate(c) == OwnerCalls < MaxOwnerCalls /\ CallCreate(c)
OwnerCallMigrate(c) == OwnerCalls < MaxOwnerCalls /\ CallMigrate(c)

\* the user trades, creates portfolios and migrates guest portfolios, in
\* any interleaving
NextOwners ==
  \/ \E r \in Requests :
       \/ OwnerStart(r)
       \/ GetQuote(r)
       \/ ReadPortfolio(r)
       \/ ReadFailed(r)
       \/ Begin(r)
       \/ BeginFailed(r)
       \/ BuyReject(r)
       \/ BuyDebit(r)
       \/ BuySelect(r)
       \/ BuyMerge(r)
       \/ BuyInsert(r)
       \/ SellSelect(r)
       \/ SellNoHolding(r)
       \/ SellReject(r)
       \/ SellCredit(r)
       \/ SellHolding(r)
       \/ Record(r)
       \/ Commit(r)
       \/ StatementFailed(r)
  \/ \E c \in Callers :
       \/ OwnerCallCreate(c)
       \/ CreateInsert(c)
       \/ CreateSelect(c)
       \/ CreateFailed(c)
       \/ OwnerCallMigrate(c)
       \/ MigrateBegin(c)
       \/ MigrateBeginFailed(c)
       \/ MigrateInsertPortfolio(c)
       \/ MigrateInsertHolding(c)
       \/ MigrateInsertTransaction(c)
       \/ MigrateCommit(c)
       \/ MigrateSelectPortfolio(c)
       \/ MigrateSelectHoldings(c)
       \/ MigrateFailed(c)

SpecOwners == InitOwners /\ [][NextOwners]_vars

\* ------------------------------------------------------------ the claims
\* the account every request of UserId trades against
Account == db.portfolios[1]
AccountId == Account.id
CashBalance(d) == d.portfolios[1].current_balance
Held(d, sym) == SelectHoldings(d, AccountId, sym)

\* this step sends the response out for a request of the given type
Responds(out) == last'.outcome = out
Answers == last'.outcome # "none"
\* the slot whose request this step ends
Ends(r) == reqs[r].pc # "idle" /\ reqs'[r].pc = "idle"
Accepted(type) == Responds(Success) /\ last'.type = type

\* every trade of the log is one of a quantity > 0
ValidLog(d) ==
  \A i \in 1..Len(d.transactions) : d.transactions[i].quantity > 0

\* s is a whole number of cents and a nearest one to n / d (d # 0)
Abs(x) == IF x >= 0 THEN x ELSE -x
NearestCent(s, n, d) ==
  /\ s % Cent = 0
  /\ 2 * Abs(s * d - n) <= Cent * Abs(d)

\* C1: cashBalance is >= 0 in every reachable state of an account created
\* with a balance >= 0, whatever the trades and their interleaving; stated
\* for the accounts whose trades all had a quantity > 0.
C1_CashBalanceNeverNegative ==
  ValidLog(db) =>
    \A i \in 1..Len(db.portfolios) : db.portfolios[i].current_balance >= 0

\* C2: at most one trade per account is between the read of its portfolio
\* row and the end of its transaction.
InFlight(r) == reqs[r].pc \in {"begin"} \cup InTransaction
C2_OneMutationInFlight ==
  \A r1, r2 \in Requests :
    (InFlight(r1) /\ InFlight(r2)
       /\ reqs[r1].portfolios[1].id = reqs[r2].portfolios[1].id) => r1 = r2

\* C3: a trade that fails after its price lookup leaves balance, holdings and
\* log as they are; the committed rows change only in the step that answers
\* success, and then balance and log change together.
C3_AllOrNothing ==
  [][ /\ (Answers /\ ~Responds(Success)) => db' = db
      /\ db' # db =>
           /\ Responds(Success)
           /\ Len(db'.transactions) = Len(db.transactions) + 1
           /\ CashBalance(db') # CashBalance(db)
           /\ \E r \in Requests :
                Ends(r) /\ db' = ApplyWrites(db, reqs[r].writes) ]_vars

C3_Witness ==
  /\ last.outcome = TradeFailed
  /\ last.error = "statement"
  /\ last.pending = 3

\* the holding of the traded symbol before and after the step that answers
OldHolding == Held(db, Symbol(last'))
NewHolding == Held(db', Symbol(last'))

\* C4: a sell of a quantity > 0 that is more than is held, or of a symbol
\* that is not held, is answered InsufficientShares and changes nothing.
C4_OversellRejected ==
  [][ ( /\ Answers
        /\ last'.type = "sell"
        /\ last'.quantity > 0
        /\ last'.conn = "released"
        /\ last'.error # "statement"
        /\ \/ Len(OldHolding) = 0
           \/ OldHolding[1].quantity < last'.quantity )
      => (last'.outcome = InsufficientShares /\ db' = db) ]_vars

\* C5: a request with quantity <= 0 or a kind other than buy and sell is
\* answered InvalidOrder, never goes on to the price lookup, and changes
\* nothing.
C5_InvalidOrderRejected ==
  [][ /\ \A r \in Requests :
           (reqs[r].pc = "idle" /\ reqs'[r].pc # "idle")
             => (reqs'[r].quantity > 0 /\ reqs'[r].type \in {"buy", "sell"})
      /\ Responds(InvalidOrder) => (db' = db /\ last'.lookups = 0) ]_vars

\* C6: on an account whose trades all had a quantity > 0, a buy of a
\* quantity > 0 is accepted only if its cost is at most the balance the
\* account has when the trade is applied, and is answered InsufficientFunds
\* only if its cost exceeds that balance, the account unchanged.
C6_BuyCheckedAgainstBalance ==
  [][ (ValidLog(db) /\ last'.quantity > 0) =>
        /\ Accepted("buy") => TotalCost(last') <= CashBalance(db)
        /\ Responds(InsufficientFunds)
             => (TotalCost(last') > CashBalance(db) /\ db' = db) ]_vars

\* C7: a failed price lookup is answered QuoteUnavailable after exactly one
\* lookup, with no connection taken, no transaction begun and no row changed;
\* no trade looks the price up more than once.
C7_QuoteFailure ==
  [][ /\ (Answers /\ last'.error = "quote")
           => /\ last'.outcome = QuoteUnavailable
              /\ last'.lookups = 1
              /\ last'.conn = "none"
              /\ last'.pending = 0
              /\ db' = db
      /\ \A r \in Requests : reqs'[r].lookups <= 1 ]_vars

C7_Witness ==
  /\ last.error = "quote"
  /\ last.outcome = QuoteUnavailable
  /\ last.lookups = 1

C9_SellDecrements ==
  [][ /\ (Accepted("sell") /\ ValidLog(db')) =>
           /\ NearestCent(CashBalance(db'),
                          CashBalance(db) + last'.quantity * last'.price, 1)
           /\ Len(OldHolding) = 1
           /\ IF OldHolding[1].quantity - last'.quantity = 0
              THEN Len(NewHolding) = 0
              ELSE /\ Len(NewHolding) = 1
                   /\ NewHolding[1].quantity
                        = OldHolding[1].quantity - last'.quantity
                   /\ NewHolding[1].purchase_price = OldHolding[1].purchase_price
      /\ \A i \in 1..Len(db.holdings), j \in 1..Len(db'.holdings) :
           (db.holdings[i].id = db'.holdings[j].id
              /\ db.holdings[i].purchase_price # db'.holdings[j].purchase_price)
             => Accepted("buy") ]_vars

\* the step commits a sell of q at p that follows a committed buy of q at p
\* of the same symbol, with no other commit in between and the sell reading
\* the holding as the buy left it
RoundTrip ==
  /\ Accepted("sell")
  /\ last'.quantity > 0
  /\ prev.type = "buy"
  /\ prev.symbol = Symbol(last')
  /\ prev.quantity = last'.quantity
  /\ prev.price = last'.price
  /\ \E r \in Requests : Ends(r) /\ reqs[r].holdings = OldHolding

RoundTripRestores ==
  /\ CashBalance(db') = CashBalance(prev.db)
  /\ Len(Held(prev.db, Symbol(last'))) = 0 => Len(NewHolding) = 0

RECURSIVE NetQuantity(_, _, _)
NetQuantity(log, pid, sym) ==
  IF log = <<>> THEN 0
  ELSE LET t == log[Len(log)]
           rest == NetQuantity(SubSeq(log, 1, Len(log) - 1), pid, sym)
       IN IF t.portfolio_id = pid /\ t.symbol = sym
          THEN IF t.type = "buy" THEN rest + t.quantity ELSE rest - t.quantity
          ELSE rest

\* the log's sell proceeds minus buy costs of one portfolio, at logged prices
RECURSIVE NetProceeds(_, _)
NetProceeds(log, pid) ==
  IF log = <<>> THEN 0
  ELSE LET t == log[Len(log)]
           rest == NetProceeds(SubSeq(log, 1, Len(log) - 1), pid)
       IN IF t.portfolio_id = pid
          THEN IF t.type = "buy" THEN rest - t.quantity * t.price
                                 ELSE rest + t.quantity * t.price
          ELSE rest

\* the most the balance and the logged prices have been rounded by, in half
\* model units: half a cent for each balance update and for each logged share
RECURSIVE RoundingOfLog(_, _)
RoundingOfLog(log, pid) ==
  IF log = <<>> THEN 0
  ELSE LET t == log[Len(log)]
           rest == RoundingOfLog(SubSeq(log, 1, Len(log) - 1), pid)
       IN IF t.portfolio_id = pid THEN rest + Cent * (1 + Abs(t.quantity))
                                  ELSE rest

HeldSymbols == {"AAPL"}

\* C11: after every commit, on an account whose trades all had a quantity
\* > 0, the holding of every symbol has the log's bought minus sold quantity
\* (no row at zero), and the balance is the initial balance plus the log's
\* sell proceeds minus its buy costs, to within the rounding of the trades.
C11_HoldingsMatchLog ==
  ValidLog(db) =>
    /\ \A sym \in HeldSymbols :
         LET net == NetQuantity(db.transactions, AccountId, sym)
         IN IF net = 0 THEN Len(Held(db, sym)) = 0
            ELSE /\ Len(Held(db, sym)) = 1
                 /\ Held(db, sym)[1].quantity = net
    /\ 2 * Abs(CashBalance(db) - (Account.initial_balance
                                   + NetProceeds(db.transactions, AccountId)))
         <= RoundingOfLog(db.transactions, AccountId)

\* C12: in every reachable state there is at most one holding for a portfolio
\* and a symbol, and every holding has a quantity > 0.
C12_HoldingsUniquePositive ==
  /\ \A i, j \in 1..Len(db.holdings) :
       (db.holdings[i].portfolio_id = db.holdings[j].portfolio_id
          /\ db.holdings[i].symbol = db.holdings[j].symbol) => i = j
  /\ \A i \in 1..Len(db.holdings) : db.holdings[i].quantity > 0

\* the logged trade of the request a step answers
LoggedExactly ==
  [portfolio_id |-> AccountId, type |-> last'.type,
   symbol |-> ToUpperCase(last'.symbol), quantity |-> last'.quantity,
   price |-> last'.price]

C14_OneLedgerPerOwner ==
  \A i, j \in 1..Len(db.portfolios) :
    db.portfolios[i].user_id = db.portfolios[j].user_id => i = j

\* the rows of one portfolio, in the order of the table
RECURSIVE RowsOf(_, _)
RowsOf(rows, pid) ==
  IF rows = <<>> THEN <<>>
  ELSE IF Head(rows).portfolio_id = pid
       THEN <<Head(rows)>> \o RowsOf(Tail(rows), pid)
       ELSE RowsOf(Tail(rows), pid)

PortfoliosWithId(d, pid) ==
  {i \in 1..Len(d.portfolios) : d.portfolios[i].id = pid}

\* nothing of portfolio pid is in the tables
NoRowsOf(d, pid) ==
  /\ PortfoliosWithId(d, pid) = {}
  /\ RowsOf(d.holdings, pid) = <<>>
  /\ RowsOf(d.transactions, pid) = <<>>

\* this step commits the migration of caller c
MigrationCommits(c) ==
  /\ migs.calls[c].pc = "commit"
  /\ migs'.calls[c].pc = "selectPortfolio"

\* this step answers a migrateGuestPortfolio call
MigrationAnswers(status) ==
  migs'.last.status = status /\ migs'.last.op = "migrate"

\* the rows a migration wrote are the body's, money compared by Same(_, _)
CopiedFrom(d, pid, body, Same(_, _)) ==
  LET holdings == RowsOf(d.holdings, pid)
      transactions == RowsOf(d.transactions, pid)
  IN /\ \E i \in PortfoliosWithId(d, pid) :
          /\ PortfoliosWithId(d, pid) = {i}
          /\ d.portfolios[i].user_id = UserId
          /\ Same(d.portfolios[i].initial_balance, body.portfolio.initialBalance)
          /\ Same(d.portfolios[i].current_balance, body.portfolio.currentBalance)
     /\ Len(holdings) = Len(body.holdings)
     /\ \A i \in 1..Len(holdings) :
          /\ holdings[i].symbol = body.holdings[i].symbol
          /\ holdings[i].quantity = body.holdings[i].quantity
          /\ Same(holdings[i].purchase_price, body.holdings[i].purchasePrice)
          /\ Same(holdings[i].current_price, body.holdings[i].currentPrice)
     /\ Len(transactions) = Len(body.transactions)
     /\ \A i \in 1..Len(transactions) :
          /\ transactions[i].type = body.transactions[i].type
          /\ transactions[i].symbol = body.transactions[i].symbol
          /\ transactions[i].quantity = body.transactions[i].quantity
          /\ Same(transactions[i].price, body.transactions[i].price)

Verbatim(stored, given) == stored = given
ToTheCent(stored, given) == NearestCent(stored, given, 1)

\* the step is one of migrateGuestPortfolio that is all or nothing: the rows
\* of a call appear in its commit step, all of them and as Same(_, _) says,
\* a call answered 201 has committed, and a call that fails before its
\* commit leaves the tables as they are and nothing of its portfolio in them
MigrationAllOrNothing(Same(_, _)) ==
  /\ \A c \in Callers :
       LET call == migs.calls[c]
       IN /\ (call.op = "migrate" /\ migs'.calls[c] # call
                                     /\ ~MigrationCommits(c)) => db' = db
          /\ MigrationCommits(c) =>
               /\ NoRowsOf(db, call.portfolioId)
               /\ CopiedFrom(db', call.portfolioId, call.body, Same)
  /\ MigrationAnswers(201) =>
       CopiedFrom(db', migs'.last.portfolioId, migs'.last.body, Same)
  /\ (MigrationAnswers(500) /\ ~migs'.last.committed) =>
       (db' = db /\ NoRowsOf(db', migs'.last.portfolioId))

\* C15 as stated: migrateGuestPortfolio is all or nothing and on success the
\* new portfolio has exactly the balances, holdings and transactions of the
\* body; a failed insert leaves no row of the call.
C15_MigrationVerbatim == [][ MigrationAllOrNothing(Verbatim) ]_vars

\* C15 as amended: the same, the balances and prices each stored as a nearest
\* whole number of cents.
C15_MigrationToTheCent == [][ MigrationAllOrNothing(ToTheCent) ]_vars

\* the guest portfolio with a balance of 1.495 and a share at 1.505 has been
\* migrated and answered 201: the rows say 1.50 and 1.51
C15_Witness ==
  /\ migs.last.status = 201 /\ migs.last.op = "migrate"
  /\ migs.last.body = GuestPortfolioSubCent
  /\ \E i \in PortfoliosWithId(db, migs.last.portfolioId) :
       db.portfolios[i].current_balance = InitialCents * Cent - 300
  /\ Len(RowsOf(db.holdings, migs.last.portfolioId)) = 1
  /\ RowsOf(db.holdings, migs.last.portfolioId)[1].purchase_price = 302
  /\ Len(RowsOf(db.transactions, migs.last.portfolioId)) = 1

\* ------------------------------------------------------ the quote cache
\* the cache a call of op looks into, in the state s of the services
CacheOf(s, op) ==
  IF op = "finnhub.getQuote" THEN s.finnhub.cache ELSE s.alpha.cache

\* this step is the arrival of a call
QuoteArrives == svc'.started = svc.started + 1

\* the operation and the key of the call that arrives in this step
ArrivedCall ==
  IF svc'.answer.kind # "none"
  THEN [op |-> svc'.answer.op, key |-> svc'.answer.key]
  ELSE LET c == CHOOSE c \in QuoteCallers :
                  svc.calls[c].pc = "idle" /\ svc'.calls[c].pc # "idle"
       IN [op |-> svc'.calls[c].op, key |-> svc'.calls[c].key]

\* the key has an entry younger than the freshness window
Fresh(cache, key, now) ==
  /\ key \in DOMAIN cache
  /\ now - cache[key].timestamp < 15 * 60 * 1000

\* this step answers a call that went to its provider
FetchAnswers == svc'.answer.kind # "none" /\ svc'.answer.fetches # 0

\* new is old with the entry of key made of data at time now, and no other
\* entry touched
Overwritten(old, new, key, data, now) ==
  /\ DOMAIN new = DOMAIN old \cup {key}
  /\ new[key] = [data |-> data, timestamp |-> now]
  /\ \A k \in DOMAIN old : k # key => new[k] = old[k]

QuoteOps == {"getQuote", "finnhub.getQuote"}

\* C16: a getQuote call that finds an entry younger than 15 minutes is
\* answered at once with the stored payload and causes no fetch; a getQuote
\* call that finds no entry or one of age >= 15 minutes is not answered from
\* the cache and makes exactly one fetch, whose payload, when it is one,
\* overwrites the entry and is what the caller gets.
C16_QuoteCache ==
  [][ /\ (QuoteArrives /\ ArrivedCall.op \in QuoteOps) =>
           LET cache == CacheOf(svc, ArrivedCall.op)
               key == ArrivedCall.key
           IN IF Fresh(cache, key, svc.now)
              THEN /\ svc'.answer.kind = "value"
                   /\ svc'.answer.data = cache[key].data
                   /\ svc'.answer.fetches = 0
                   /\ svc'.calls = svc.calls
                   /\ svc'.nFetch = svc.nFetch
                   /\ svc'.alpha.cache = svc.alpha.cache
                   /\ svc'.finnhub.cache = svc.finnhub.cache
              ELSE /\ svc'.answer = NoQuoteAnswer
                   /\ \E c \in QuoteCallers :
                        /\ svc.calls[c].pc = "idle"
                        /\ svc'.calls[c].pc \in {"queued", "fetching"}
                        /\ svc'.calls[c].fetches =
                             (IF svc'.calls[c].pc = "fetching" THEN 1 ELSE 0)
      /\ \A c \in QuoteCallers :
           svc'.calls[c].op \in QuoteOps =>
             svc'.calls[c].fetches =
               (IF svc'.calls[c].pc = "fetching" THEN 1 ELSE 0)
      /\ (FetchAnswers /\ svc'.answer.op \in QuoteOps) =>
           /\ svc'.answer.fetches = 1
           /\ svc'.answer.kind = "value" =>
                /\ svc'.answer.data = svc'.nFetch
                /\ svc'.nFetch = svc.nFetch + 1
                /\ Overwritten(CacheOf(svc, svc'.answer.op),
                               CacheOf(svc', svc'.answer.op),
                               svc'.answer.key, svc'.answer.data, svc.now)
    ]_vars

\* a second getQuote, made 12 seconds after the first was answered, has been
\* answered with the payload of the one fetch there was
C16_Witness ==
  /\ svc.answer.kind = "value"
  /\ svc.answer.op \in QuoteOps
  /\ svc.answer.fetches = 0
  /\ svc.started = 2
  /\ svc.nFetch = 1
  /\ svc.answer.data = 1
  /\ svc.now - CacheOf(svc, svc.answer.op)[svc.answer.key].timestamp
       = minRequestInterval

\* a getQuote made when the entry was exactly 15 minutes old went to the
\* provider and its payload has replaced the entry
C16_WitnessExpired ==
  /\ svc.answer.kind = "value"
  /\ svc.answer.op \in QuoteOps
  /\ svc.answer.fetches = 1
  /\ svc.answer.data = 2
  /\ svc.now = 15 * 60 * 1000
  /\ CacheOf(svc, svc.answer.op)[svc.answer.key] =
       [data |-> 2, timestamp |-> svc.now]

\* the answers of a provider that are no payload
Failures == {"Note", "Error Message", "Information", "empty", "transport"}

\* C17: a cache changes only in the step in which a fetch is answered with a
\* payload, and then by the entry of that key alone; a fetch answered with
\* a rate limit note, an error message, an empty body or no response at all
\* gives the caller a failure and leaves both caches as they were.
C17_CacheOnlyOnSuccess ==
  [][ /\ (svc'.alpha.cache # svc.alpha.cache
            \/ svc'.finnhub.cache # svc.finnhub.cache) =>
           /\ FetchAnswers
           /\ svc'.answer.kind = "value"
           /\ svc'.answer.outcome = "ok"
           /\ Overwritten(CacheOf(svc, svc'.answer.op),
                          CacheOf(svc', svc'.answer.op),
                          svc'.answer.key, svc'.answer.data, svc.now)
           /\ svc'.answer.op = "finnhub.getQuote" =>
                svc'.alpha.cache = svc.alpha.cache
           /\ svc'.answer.op # "finnhub.getQuote" =>
                svc'.finnhub.cache = svc.finnhub.cache
      /\ (FetchAnswers /\ svc'.answer.outcome \in Failures) =>
           /\ svc'.answer.kind = "failure"
           /\ svc'.alpha.cache = svc.alpha.cache
           /\ svc'.finnhub.cache = svc.finnhub.cache
    ]_vars

\* a fetch for a key that had an entry, 15 minutes old, has failed: the
\* caller has the failure and the old entry is still there
C17_Witness ==
  /\ svc.answer.kind = "failure"
  /\ svc.answer.fetches = 1
  /\ svc.answer.key \in DOMAIN CacheOf(svc, svc.answer.op)
  /\ CacheOf(svc, svc.answer.op)[svc.answer.key] =
       [data |-> 1, timestamp |-> 0]

\* --------------------------------------------------- the request throttle
\* the calls whose axios.get to Alpha Vantage is under way
AlphaInFlight ==
  {c \in QuoteCallers :
     /\ svc.calls[c].pc = "fetching"
     /\ svc.calls[c].op \in {"getQuote", "getHistoricalData"}}

\* the calls whose queued request is under way
QueuedInFlight ==
  {c \in QuoteCallers :
     svc.calls[c].pc = "fetching" /\ svc.calls[c].op = "getQuote"}

\* C18: at most one request to Alpha Vantage is in flight, getQuote and
\* getHistoricalData taken together.
C18_OneProviderRequest == Cardinality(AlphaInFlight) <= 1

\* C19: at most one queued request is in flight, and a queued request is
\* started only in a state in which none is.
C19_OneQueuedFetch ==
  [][ /\ Cardinality(QueuedInFlight') <= 1
      /\ Len(svc'.starts) > Len(svc.starts) => QueuedInFlight = {}
    ]_vars

\* the request of one call is in flight and that of another waits in the
\* queue
C19_Witness ==
  \E c, d \in QuoteCallers :
    /\ svc.calls[c].pc = "fetching" /\ svc.calls[c].op = "getQuote"
    /\ svc.calls[d].pc = "queued"
    /\ svc.alpha.requestQueue = <<d>>
    /\ svc.alpha.isProcessing

\* C20: any two queued requests are started at least 12 seconds apart.
C20_MinimumInterval ==
  \A i \in 2..Len(svc.starts) :
    svc.starts[i] - svc.starts[i - 1] >= 12000

\* the calls this step pushes on the queue, and those whose request it starts
Enqueued ==
  {c \in QuoteCallers :
     /\ svc.calls[c].pc = "idle"
     /\ svc'.calls[c].pc # "idle"
     /\ svc'.calls[c].op = "getQuote"}
Started ==
  {c \in QuoteCallers :
     /\ svc.calls[c].pc # "fetching"
     /\ svc'.calls[c].pc = "fetching"
     /\ svc'.calls[c].op = "getQuote"}

\* the queue of the state with the call of this step behind it
Line ==
  IF Enqueued = {} THEN svc.alpha.requestQueue
  ELSE Append(svc.alpha.requestQueue, CHOOSE c \in Enqueued : TRUE)

\* C21: the queue is first in, first out: a request is pushed behind the
\* ones that wait, the request that starts is the one that waited longest
\* and no other leaves the queue, so a request never starts before one
\* that was enqueued earlier, the ones enqueued during the wait of
\* processQueue included; a request ends only after it has started.
C21_Fifo ==
  [][ /\ Cardinality(Enqueued) <= 1
      /\ Cardinality(Started) <= 1
      /\ Started = {} => svc'.alpha.requestQueue = Line
      /\ \A c \in Started :
           /\ Line # <<>>
           /\ c = Head(Line)
           /\ svc'.alpha.requestQueue = Tail(Line)
      /\ \A c \in QuoteCallers :
           svc.calls[c].pc = "queued" =>
             svc'.calls[c].pc \in {"queued", "fetching"}
    ]_vars

\* processQueue waits between two requests and two requests are queued; the
\* one enqueued first has its fetch under way after the wait
C21_Witness ==
  /\ Len(svc.starts) = 2
  /\ svc.starts[2] - svc.starts[1] >= minRequestInterval
  /\ svc.calls[2].pc = "fetching"
  /\ svc.calls[3].pc = "queued"
  /\ svc.alpha.requestQueue = <<3>>

\* this step gives caller c the payload or the failure of the request c
\* had in flight
Served(c) ==
  /\ svc.calls[c].pc = "fetching"
  /\ svc'.calls[c].pc = "idle"
  /\ svc'.answer.kind \in {"value", "failure"}
  /\ svc'.answer.caller = c
  /\ svc'.answer.key = svc.calls[c].key
  /\ svc'.answer.fetches = 1
  /\ svc'.answer.kind = "value" => svc'.answer.data = svc'.nFetch

\* C22: when every axios.get is answered, every request that is pushed on
\* the queue is started in the end and every request that is started ends
\* in the end, and it ends with its caller getting the payload or the
\* failure of that request.
C22_EveryRequestServed ==
  /\ \A c \in QuoteCallers :
       /\ (svc.calls[c].pc = "queued") ~> (svc.calls[c].pc = "fetching")
       /\ (svc.calls[c].pc = "fetching") ~> (svc.calls[c].pc = "idle")
  /\ [][ \A c \in QuoteCallers :
           (svc.calls[c].pc # "idle" /\ svc'.calls[c].pc = "idle")
             => Served(c) ]_vars

\* the third of three concurrent callers, whose request waited behind two
\* others, has its answer
C22_Witness ==
  /\ svc.answer.caller = 3
  /\ svc.answer.fetches = 1
  /\ Len(svc.starts) = 3

\* this step ends a queued request with a failure
QueuedFails ==
  /\ svc'.answer.kind = "failure"
  /\ svc'.answer.op = "getQuote"

\* the queue is served: a loop of processQueue waits for its timer when a
\* request waits, and none runs and isProcessing is clear when none waits
Running(s) ==
  IF s.alpha.requestQueue # <<>>
  THEN /\ s.alpha.isProcessing
       /\ Len(s.consumers) = 1
       /\ s.consumers[1].pc = "timer"
       /\ s.consumers[1].due = s.now + minRequestInterval
  ELSE /\ ~s.alpha.isProcessing
       /\ s.consumers = <<>>

\* C23: a queued request that fails gives its failure to the caller that
\* enqueued it, whose request it ends, and to no other: the other calls stay
\* where they are; and the queue is served after it as after a success.
C23_FailureToItsCaller ==
  [][ QueuedFails =>
        /\ svc'.answer.outcome \in Failures
        /\ svc'.answer.caller \in QueuedInFlight
        /\ \A c \in QuoteCallers :
             IF c = svc'.answer.caller
             THEN /\ svc'.answer.key = svc.calls[c].key
                  /\ svc'.calls[c].pc = "idle"
             ELSE svc'.calls[c] = svc.calls[c]
        /\ svc'.alpha.requestQueue = svc.alpha.requestQueue
        /\ Running(svc')
    ]_vars

\* the request of the first caller has failed while two others waited: the
\* loop waits for its timer with both still queued
C23_Witness ==
  /\ svc.answer.kind = "failure"
  /\ svc.answer.caller = 1
  /\ svc.alpha.requestQueue = <<2, 3>>
  /\ svc.alpha.isProcessing
  /\ svc.calls[2].pc = "queued"

C25_QuoteThroughCache ==
  \A r1, r2 \in Requests :
    (r1 # r2 /\ reqs[r1].lookups > 0 /\ reqs[r2].lookups > 0)
      => Symbol(reqs[r1]) # Symbol(reqs[r2])

\* ------------------------------------------------- the replay of the log
\* the holdings rows of the account, in the order of the table
HoldingRows(d) == RowsOf(d.holdings, d.portfolios[1].id)

\* the account as the replay of its whole log makes it
Replayed(d) ==
  Replay(ReplayStart(d.portfolios[1].initial_balance),
         RowsOf(d.transactions, d.portfolios[1].id))

\* C26: on an account whose trades all had a quantity > 0, the replay of the
\* whole log from the initial balance gives the balance of the portfolio
\* row, and a holdings map with the symbols of the holdings rows, one row
\* for each, with the quantity and the average cost of the row.
C26_ReplayIsLedger ==
  ValidLog(db) =>
    LET replayed == Replayed(db)
        rows == HoldingRows(db)
    IN /\ replayed.cash = CashBalance(db)
       /\ Len(rows) = Cardinality(DOMAIN replayed.holdings)
       /\ \A i \in 1..Len(rows) :
            /\ rows[i].symbol \in DOMAIN replayed.holdings
            /\ rows[i].quantity = replayed.holdings[rows[i].symbol].quantity
            /\ rows[i].purchase_price * replayed.holdings[rows[i].symbol].den
                 = replayed.holdings[rows[i].symbol].num

\* ------------------------------------------------ the performance curve
\* the call has answered with the points of a log that has transactions
CurveAnswered ==
  /\ perf.pc = "idle"
  /\ perf.answer.status = 200
  /\ perf.symbols # {}

\* the historicalDataMap without the series of the symbols in the set
Without(data, symbols) ==
  [k \in DOMAIN data \ symbols |-> data[k]]

\* C27: when getHistoricalData failed for every symbol of the log, the call
\* does not answer with points: it fails; when it failed for some of the
\* symbols only, the call answers with points, and the value of every point
\* is the value that the series of the other symbols give, the failed
\* symbols adding nothing.
C27_HistoryUnavailable ==
  (perf.pc = "idle" /\ perf.symbols # {} /\ perf.pending = {}
     /\ perf.answer.status # 0)
    => IF perf.failed = perf.symbols
       THEN perf.answer.status # 200
       ELSE /\ perf.answer.status = 200
            /\ \A i \in 1..Len(perf.answer.body) :
                 perf.answer.body[i].value =
                   TotalValue(perf.portfolio, perf.transactions,
                              Without(perf.data, perf.failed),
                              perf.answer.body[i].date)

\* the account the call was made on has no transaction
EmptyLogAnswered ==
  /\ perf.pc = "idle"
  /\ perf.answer.status = 200
  /\ Len(db.portfolios) = 1
  /\ RowsOf(db.transactions, db.portfolios[1].id) = <<>>

\* C28: the answer to a call on an account without a transaction is one
\* point, its value is the initial balance of the account, and the call
\* made no yf.historical call.
C28_EmptyLogOnePoint ==
  EmptyLogAnswered =>
    /\ Len(perf.answer.body) = 1
    /\ perf.answer.body[1].value = db.portfolios[1].initial_balance
    /\ perf.fetched = 0

C28_Witness ==
  /\ EmptyLogAnswered
  /\ perf.answer.body[1].value = InitialCents * Cent

\* C29: the points of the answer are in strictly ascending order of date,
\* every date of a point of a fetched series is the date of a point of the
\* answer, and every date of a point of the answer is the date of a point
\* of a fetched series.
C29_OnePointPerDate ==
  CurveAnswered =>
    LET body == perf.answer.body
    IN /\ \A i, j \in 1..Len(body) : i < j => body[i].date < body[j].date
       /\ \A s \in DOMAIN perf.data : \A k \in 1..Len(perf.data[s]) :
            \E i \in 1..Len(body) : body[i].date = perf.data[s][k].date
       /\ \A i \in 1..Len(body) :
            \E s \in DOMAIN perf.data : \E k \in 1..Len(perf.data[s]) :
              body[i].date = perf.data[s][k].date

\* two series that share a date and have a date each of their own
C29_Witness ==
  /\ CurveAnswered
  /\ Len(perf.answer.body) = 3
  /\ \E s, t \in DOMAIN perf.data :
       /\ Len(perf.data[s]) = 2
       /\ Len(perf.data[t]) = 2
       /\ perf.data[s][2].date = perf.data[t][1].date
       /\ perf.data[s][1].date < perf.data[t][1].date

\* ------------------------------------------------------------ the owners
\* the rows of a table that belong to the portfolios of a user
RECURSIVE PortfoliosOf(_, _)
PortfoliosOf(rows, uid) ==
  IF rows = <<>> THEN <<>>
  ELSE IF Head(rows).user_id = uid
       THEN <<Head(rows)>> \o PortfoliosOf(Tail(rows), uid)
       ELSE PortfoliosOf(Tail(rows), uid)

RECURSIVE OwnedRows(_, _)
OwnedRows(rows, pids) ==
  IF rows = <<>> THEN <<>>
  ELSE IF Head(rows).portfolio_id \in pids
       THEN <<Head(rows)>> \o OwnedRows(Tail(rows), pids)
       ELSE OwnedRows(Tail(rows), pids)

\* the account of a user: the portfolio rows with their balances, the
\* holdings and the log
Owned(d, uid) ==
  LET portfolios == PortfoliosOf(d.portfolios, uid)
      pids == {portfolios[i].id : i \in 1..Len(portfolios)}
  IN [portfolios |-> portfolios,
      holdings |-> OwnedRows(d.holdings, pids),
      transactions |-> OwnedRows(d.transactions, pids)]

\* C30: no step of an executeTrade, createPortfolio or migrateGuestPortfolio
\* call of the user changes the balance, the holdings or the log of the
\* account of the other user, in any interleaving of the calls.
C30_OtherOwnerUnchanged ==
  [][Owned(db', OtherUserId) = Owned(db, OtherUserId)]_vars

\* the user has traded AAPL and has migrated a guest portfolio, and the
\* other user holds AAPL
C30_Witness ==
  /\ Len(PortfoliosOf(db.portfolios, UserId)) > 1
  /\ Len(Owned(db, UserId).transactions) > 0
  /\ nStarted > 0
  /\ last.outcome = Success
  /\ Len(Owned(db, OtherUserId).holdings) = 1

\* ------------------------------------------------- the end of a trade
\* the positions of a request after its price lookup has succeeded
AfterLookup == {"selectPortfolio", "begin"} \cup InTransaction

\* C31: a request whose price lookup has succeeded is answered; the step
\* that answers it either commits all its writes and releases the
\* connection, or leaves the tables as they were; and no answered request
\* keeps a transaction or a pending write.
C31_TradeEnds ==
  /\ \A r \in Requests :
       (reqs[r].pc \in AfterLookup) ~> (reqs[r].pc = "idle")
  /\ [][ \A r \in Requests :
           (reqs[r].pc \in AfterLookup /\ reqs'[r].pc = "idle")
             => /\ last'.conn # "tx"
                /\ IF last'.outcome = Success
                   THEN /\ db' = ApplyWrites(db, reqs[r].writes)
                        /\ last'.conn = "released"
                   ELSE db' = db ]_vars
  /\ [](\A r \in Requests :
          reqs[r].pc = "idle"
            => (reqs[r].conn = "none" /\ reqs[r].writes = <<>>))

\* a buy is rejected while the other request holds the row lock
C31_Witness ==
  /\ last.outcome = InsufficientFunds
  /\ last.conn = "released"
  /\ \E r \in Requests : reqs[r].conn = "tx" /\ Len(reqs[r].writes) > 0

\* ------------------------------------------------ the points of the curve
\* the transactions made on the day of the date or before it
RECURSIVE MadeByDay(_, _)
MadeByDay(transactions, date) ==
  IF transactions = <<>> THEN <<>>
  ELSE IF DateOf(Head(transactions).timestamp) <= date
       THEN <<Head(transactions)>> \o MadeByDay(Tail(transactions), date)
       ELSE MadeByDay(Tail(transactions), date)

\* C32: the value of the point of a date is the cash and the holdings of
\* the replay, from the initial balance and no holding, of the transactions
\* made on the day of the date or before it: a trade made in the course of
\* the day is in the point of the day.
C32_ReplayThroughTheDay ==
  CurveAnswered =>
    \A i \in 1..Len(perf.answer.body) :
      LET date == perf.answer.body[i].date
          replayed == Replay(ReplayStart(perf.portfolio.initial_balance),
                             MadeByDay(perf.transactions, date))
      IN perf.answer.body[i].value =
           replayed.cash + HoldingsValue(replayed.holdings, perf.data, date)

\* the points of a series dated the date, and dated before it
DatedOn(series, date) ==
  {k \in 1..Len(series) : series[k].date = date}
DatedBefore(series, date) ==
  {k \in 1..Len(series) : series[k].date < date}

\* the close of the point of the date; without one, the close of the point
\* of the latest earlier date; without one, zero
PriceOn(series, date) ==
  IF DatedOn(series, date) # {}
  THEN series[CHOOSE k \in DatedOn(series, date) : TRUE].close
  ELSE IF DatedBefore(series, date) # {}
       THEN series[CHOOSE k \in DatedBefore(series, date) :
                     \A j \in DatedBefore(series, date) :
                       series[j].date <= series[k].date].close
       ELSE 0

\* the sum of quantity times price over the symbols held
RECURSIVE ValueOfHeld(_, _, _, _)
ValueOfHeld(symbols, holdings, data, date) ==
  IF symbols = {} THEN 0
  ELSE LET s == CHOOSE k \in symbols : TRUE
       IN holdings[s].quantity * PriceOn(data[s], date)
            + ValueOfHeld(symbols \ {s}, holdings, data, date)

\* the holdings and the cash the replay of the call gives for a date
ReplayedAt(date) ==
  Replay(ReplayStart(perf.portfolio.initial_balance),
         UpTo(perf.transactions, Midnight(date)))

\* C33: the value of the point of a date is the replayed cash plus, for
\* every symbol held, the quantity times the close of the point of the
\* series dated the date, or else of the point of the latest earlier date,
\* or else zero.
C33_ClosePrice ==
  CurveAnswered =>
    \A i \in 1..Len(perf.answer.body) :
      LET date == perf.answer.body[i].date
          replayed == ReplayedAt(date)
      IN perf.answer.body[i].value =
           replayed.cash + ValueOfHeld(DOMAIN replayed.holdings,
                                       replayed.holdings, perf.data, date)

\* one answer with a held symbol priced at an earlier close and a held
\* symbol without a price
C33_Witness ==
  /\ CurveAnswered
  /\ \E i \in 1..Len(perf.answer.body) :
       LET date == perf.answer.body[i].date
       IN \E s \in DOMAIN ReplayedAt(date).holdings :
            /\ DatedOn(perf.data[s], date) = {}
            /\ DatedBefore(perf.data[s], date) # {}
            /\ PriceOn(perf.data[s], date) > 0
  /\ \E i \in 1..Len(perf.answer.body) :
       LET date == perf.answer.body[i].date
       IN \E s \in DOMAIN ReplayedAt(date).holdings :
            /\ DatedOn(perf.data[s], date) = {}
            /\ DatedBefore(perf.data[s], date) = {}
            /\ perf.data[s] # <<>>

\* -------------------------------------------- one fetch for one symbol
\* the getQuote calls whose request for the key waits in the queue or is
\* in flight
Fetching(key) ==
  {c \in QuoteCallers :
     /\ svc.calls[c].pc \in {"queued", "fetching"}
     /\ svc.calls[c].op \in {"getQuote", "finnhub.getQuote"}
     /\ svc.calls[c].key = key}

\* C34: of the getQuote calls for one symbol that found no fresh entry, at
\* most one has a request queued or in flight: the calls that arrive while
\* it is share that request and its result.
C34_OneFetchPerSymbol ==
  \A c \in QuoteCallers :
    svc.calls[c].pc \in {"queued", "fetching"}
      => Cardinality(Fetching(svc.calls[c].key)) <= 1

\* ------------------------------------------- a migration that reports 500
\* C35: when a migrateGuestPortfolio call is answered 500, no portfolio,
\* holding or transaction row of the call is in the tables, also when the
\* step that failed is a read made after the commit.
C35_FailureLeavesNoRow ==
  [][ MigrationAnswers(500)
        => NoRowsOf(db', migs'.last.portfolioId) ]_vars

\* ------------------------------------------------- the price of the log
\* C36: every transaction row a trade appends has a price > 0: a quote
\* without a market price, or with the market price 0, ends the request as
\* a failed lookup.
C36_PositivePrice ==
  [][ Len(db'.transactions) > Len(db.transactions)
        => db'.transactions[Len(db'.transactions)].price > 0 ]_vars

\* ------------------------------------------- the browser of a guest: steps
\* parseFloat(suggestions.budget): 3.00
Budget == InitialCents * Cent

\* suggestions.stocks: the symbols the AI recommends with their share of the
\* budget in percent
Suggestions ==
  {<<[symbol |-> "AAPL", allocation |-> 100]>>,
   <<[symbol |-> "AAPL", allocation |-> 50],
     [symbol |-> "MSFT", allocation |-> 50]>>,
   <<[symbol |-> "MSFT", allocation |-> 50],
     [symbol |-> "AAPL", allocation |-> 50]>>}

\* what fetch gets: a 2xx response, another response, no response
Responses == {"ok", "error", "network"}

\* request without its test of response.ok
RequestThrows_AnyStatus(response) == response = "network"

\* request throws when fetch rejects and when the response is not ok
RequestThrows(response) == response # "ok"

\* the three keys after saveGuestPortfolio(p, h, t)
saveGuestPortfolio(p, h, t) ==
  [guestPortfolio |-> <<p>>, guestHoldings |-> <<h>>,
   guestTransactions |-> <<t>>]

\* the guest branch of createPortfolio of PortfolioProvider: what it sets
\* and saves
NewLedger(name, initialBalance) ==
  [portfolio |-> [name |-> name, initialBalance |-> initialBalance,
                  currentBalance |-> initialBalance],
   holdings |-> <<>>, transactions |-> <<>>]

\* updatedHoldings.find(h => h.symbol === symbol) found a holding
Holds(holdings, symbol) ==
  \E i \in DOMAIN holdings : holdings[i].symbol = symbol

\* the holdings after the buy changed existingHolding; purchasePrice is the
\* exact average num / den
Merged(holdings, symbol, quantity, price) ==
  [i \in DOMAIN holdings |->
     IF holdings[i].symbol = symbol
       THEN LET h == holdings[i]
            IN [symbol |-> symbol, quantity |-> h.quantity + quantity,
                purchasePrice |->
                  [num |-> h.purchasePrice.num * h.quantity
                             + price * quantity * h.purchasePrice.den,
                   den |-> h.purchasePrice.den * (h.quantity + quantity)],
                currentPrice |-> price]
       ELSE holdings[i]]

\* updatedPortfolio, updatedHoldings and updatedTransactions of a buy that
\* executeTrade of PortfolioProvider makes of the portfolio, holdings and
\* transactions it reads
Buy(ledger, symbol, quantity, price) ==
  [portfolio |-> [ledger.portfolio EXCEPT
                    !.currentBalance = @ - price * quantity],
   holdings |->
     IF Holds(ledger.holdings, symbol)
       THEN Merged(ledger.holdings, symbol, quantity, price)
       ELSE Append(ledger.holdings,
                   [symbol |-> symbol, quantity |-> quantity,
                    purchasePrice |-> [num |-> price, den |-> 1],
                    currentPrice |-> price]),
   transactions |-> <<[type |-> "buy", symbol |-> symbol,
                       quantity |-> quantity, price |-> price]>>
                    \o ledger.transactions]

\* a guest who comes back: loadGuestPortfolio found one share of AAPL bought
\* at 1.00 out of 2.25
OldLedger == Buy(NewLedger("My Portfolio", 450), "AAPL", 1, 200)

ReturningGuest ==
  [NoGuest EXCEPT
     !.state = OldLedger,
     !.storage = saveGuestPortfolio(OldLedger.portfolio, OldLedger.holdings,
                                    OldLedger.transactions)]

\* handleCreatePortfolio goes to the next stock, or to the dashboard
NextStock(home) ==
  [home EXCEPT !.stocks = Tail(@),
               !.pc = IF Len(home.stocks) > 1 THEN "getQuote"
                      ELSE "dashboard"]

\* the catch of handleCreatePortfolio
Alert(home, message) == [home EXCEPT !.pc = "failed", !.alert = message]

\* the click on the button, up to the first api.getQuote: createPortfolio
\* takes its guest branch, which has no await. The executeTrade the handler
\* calls later is the one of the render before the click
HandleCreatePortfolio(stocks) ==
  /\ guest.home.pc # "getQuote"
  /\ guest.home.pc # "executeTrade"
  /\ guest.home.runs < MaxRuns
  /\ ~guest.token
  /\ LET new == NewLedger("AI Recommended Portfolio", Budget)
     IN guest' =
          [guest EXCEPT
             !.state = new,
             !.storage = saveGuestPortfolio(new.portfolio, new.holdings,
                                            new.transactions),
             !.home = [pc |-> "getQuote", seen |-> guest.state,
                       budget |-> Budget, stocks |-> stocks,
                       quantity |-> 0, bought |-> <<>>, alert |-> "",
                       runs |-> guest.home.runs + 1]]
  /\ UNCHANGED <<db, reqs, nStarted, last, prev, migs, svc, perf>>

\* api.getQuote of the loop returns; the handler calls executeTrade, which
\* runs up to its own api.getQuote
HomeQuoteReturns ==
  /\ guest.home.pc = "getQuote"
  /\ \E response \in Responses, price \in Prices :
       LET home == guest.home
           stock == Head(home.stocks)
           allocationAmount == (home.budget * stock.allocation) \div 100
           quantity == allocationAmount \div price
       IN guest' =
            [guest EXCEPT !.home =
               IF RequestThrows(response)
                 THEN Alert(home, "Request failed")
               ELSE IF quantity > 0
                 THEN IF home.seen.portfolio = Null
                        THEN Alert(home, "No portfolio found")
                        ELSE [home EXCEPT !.pc = "executeTrade",
                                          !.quantity = quantity]
               ELSE NextStock(home)]
  /\ UNCHANGED <<db, reqs, nStarted, last, prev, migs, svc, perf>>

\* api.getQuote of executeTrade returns: the buy is made of what the
\* function reads, set and saved. The holding objects of the array it reads
\* are the ones of its copy, so that a change of existingHolding is a change
\* of what it reads next
TradeQuoteReturns ==
  /\ guest.home.pc = "executeTrade"
  /\ \E response \in Responses, price \in Prices :
       LET home == guest.home
           symbol == Head(home.stocks).symbol
           totalCost == price * home.quantity
           updated == Buy(home.seen, symbol, home.quantity, price)
       IN IF RequestThrows(response)
            THEN guest' = [guest EXCEPT
                             !.home = Alert(home, "Request failed")]
          ELSE IF home.seen.portfolio.currentBalance < totalCost
            THEN guest' = [guest EXCEPT
                             !.home = Alert(home, "Insufficient balance")]
          ELSE guest' =
                 [guest EXCEPT
                    !.state = updated,
                    !.storage = saveGuestPortfolio(updated.portfolio,
                                                   updated.holdings,
                                                   updated.transactions),
                    !.home = NextStock(
                      [home EXCEPT
                         !.seen.holdings =
                           IF Holds(@, symbol)
                             THEN Merged(@, symbol, home.quantity, price)
                             ELSE @,
                         !.bought = Append(@, [symbol |-> symbol,
                                               quantity |-> home.quantity,
                                               price |-> price])])]
  /\ UNCHANGED <<db, reqs, nStarted, last, prev, migs, svc, perf>>

\* the guest signs up: useAuth gives a token. The account is new, so the
\* api.getPortfolio of the effect is answered 404 and loadAuthenticatedPortfolio
\* leaves portfolio, holdings and transactions as they are
Login ==
  /\ ~guest.token
  /\ guest' = [guest EXCEPT !.token = TRUE]
  /\ UNCHANGED <<db, reqs, nStarted, last, prev, migs, svc, perf>>

\* migrateToAccount up to its api.migratePortfolio
MigrateToAccount ==
  /\ guest.migrate.pc = "idle"
  /\ guest.migrate.calls < MaxMigrations
  /\ guest' =
       [guest EXCEPT !.migrate =
          IF ~guest.token \/ guest.state.portfolio = Null
            THEN [@ EXCEPT !.calls = @ + 1, !.response = ""]
            ELSE [pc |-> "migratePortfolio", data |-> guest.state,
                  response |-> "", calls |-> @.calls + 1]]
  /\ UNCHANGED <<db, reqs, nStarted, last, prev, migs, svc, perf>>

\* api.migratePortfolio returns or throws; after a return the three keys are
\* removed and loadAuthenticatedPortfolio runs up to its api.getPortfolio
MigrateReturns ==
  /\ guest.migrate.pc = "migratePortfolio"
  /\ \E response \in Responses :
       guest' =
         IF RequestThrows(response)
           THEN [guest EXCEPT !.migrate.pc = "idle",
                              !.migrate.response = response]
           ELSE [guest EXCEPT !.storage = NoStorage,
                              !.migrate.pc = "getPortfolio",
                              !.migrate.response = response]
  /\ UNCHANGED <<db, reqs, nStarted, last, prev, migs, svc, perf>>

\* api.getPortfolio of loadAuthenticatedPortfolio returns the portfolio the
\* migration made, or throws into the catch
LoadPortfolioReturns ==
  /\ guest.migrate.pc = "getPortfolio"
  /\ \E response \in Responses :
       guest' =
         IF RequestThrows(response)
           THEN [guest EXCEPT !.migrate.pc = "idle"]
           ELSE [guest EXCEPT
                   !.state.portfolio = guest.migrate.data.portfolio,
                   !.state.holdings = guest.migrate.data.holdings,
                   !.migrate.pc = "getTransactions"]
  /\ UNCHANGED <<db, reqs, nStarted, last, prev, migs, svc, perf>>

\* api.getTransactions of loadAuthenticatedPortfolio returns or throws
LoadTransactionsReturns ==
  /\ guest.migrate.pc = "getTransactions"
  /\ \E response \in Responses :
       guest' =
         IF RequestThrows(response)
           THEN [guest EXCEPT !.migrate.pc = "idle"]
           ELSE [guest EXCEPT
                   !.state.transactions = guest.migrate.data.transactions,
                   !.migrate.pc = "idle"]
  /\ UNCHANGED <<db, reqs, nStarted, last, prev, migs, svc, perf>>

\* a visitor with nothing stored, or one who comes back to a stored
\* portfolio
InitGuest ==
  /\ db = createPortfolio(UserId, InitialCents * Cent)
  /\ reqs = [r \in Requests |-> NewRequest]
  /\ nStarted = 0
  /\ last = NoResponse
  /\ prev = [db |-> db, type |-> "", symbol |-> "", quantity |-> 0,
             price |-> 0]
  /\ migs = NoCalls
  /\ svc = NoQuotes
  /\ perf = NoPerformance
  /\ guest \in {NoGuest, ReturningGuest}

NextGuest ==
  \/ \E stocks \in Suggestions : HandleCreatePortfolio(stocks)
  \/ HomeQuoteReturns
  \/ TradeQuoteReturns
  \/ Login
  \/ MigrateToAccount
  \/ MigrateReturns
  \/ LoadPortfolioReturns
  \/ LoadTransactionsReturns

SpecGuest == InitGuest /\ [][NextGuest]_vars

\* ------------------------------------------------- the trades of a guest
RECURSIVE CostOf(_)
\* what the buys of a list cost together
CostOf(bought) ==
  IF bought = <<>> THEN 0
  ELSE Head(bought).price * Head(bought).quantity + CostOf(Tail(bought))

\* C37: the buys handleCreatePortfolio makes for a guest one after another
\* add up: once the handler created the portfolio, the portfolio of the
\* guest, in the state of the provider and in localStorage, holds one
\* position and one transaction for each buy made so far, and its balance is
\* the budget less the cost of these buys.
C37_BuysAddUp ==
  (guest.home.runs > 0 /\ ~guest.token) =>
    LET bought == guest.home.bought
        ledger == guest.state
    IN /\ Len(ledger.transactions) = Len(bought)
       /\ Len(ledger.holdings) = Len(bought)
       /\ \A i \in DOMAIN bought :
            \E j \in DOMAIN ledger.holdings :
              /\ ledger.holdings[j].symbol = bought[i].symbol
              /\ ledger.holdings[j].quantity = bought[i].quantity
       /\ ledger.portfolio.currentBalance
            = guest.home.budget - CostOf(bought)
       /\ guest.storage = saveGuestPortfolio(ledger.portfolio,
                                             ledger.holdings,
                                             ledger.transactions)

\* ---------------------------------------------- the keys after a migration
\* this step removes a key of the guest from localStorage
RemovesKey ==
  \E k \in DOMAIN NoStorage :
    guest.storage[k] # <<>> /\ guest'.storage[k] = <<>>

\* the api.migratePortfolio of migrateToAccount ends in this step
MigrationCallEnds ==
  guest.migrate.pc = "migratePortfolio"
    /\ guest'.migrate.pc # "migratePortfolio"

\* C38: migrateToAccount removes the stored portfolio, holdings and
\* transactions of the guest only once its call of the server has succeeded:
\* a step that removes one of the three keys is the return of
\* api.migratePortfolio with a 2xx response, and a call that fails leaves
\* the three keys as they were.
C38_KeysOutliveFailure ==
  [][ /\ RemovesKey
           => (MigrationCallEnds /\ guest'.migrate.response = "ok")
      /\ (MigrationCallEnds /\ guest'.migrate.response # "ok")
           => guest'.storage = guest.storage ]_vars

\* a migration failed and the three keys still hold what was to be migrated
C38_Witness ==
  /\ guest.migrate.calls > 0
  /\ guest.migrate.pc = "idle"
  /\ guest.migrate.response \in {"error", "network"}
  /\ guest.storage
       = saveGuestPortfolio(guest.migrate.data.portfolio,
                            guest.migrate.data.holdings,
                            guest.migrate.data.transactions)
  /\ guest.migrate.data.transactions # <<>>

\* ------------------------------------------- the connections of the pool
\* C39: every connection executeTrade took from the pool is back in the pool
\* when the request is answered, on every path: an answer of executeTrade
\* finds the request without a connection taken or with its connection
\* released, never with one that nothing released.
C39_ConnectionReleased ==
  [][ Answers => last'.conn \in {"none", "released"} ]_vars

====
